---- MODULE Spec2Model ----
(***************************************************************************)
(* State-machine model of tinyland-a11y-logger: the settings store of     *)
(* src/src/config.ts and the buffered log shipper of                      *)
(* src/src/a11y-logger.ts (queue, flush timer, shutdown hook, transport). *)
(*                                                                         *)
(* JavaScript runs every handler to completion, so each handler is one    *)
(* action; the only suspension point is `await fetch(...)` in flushLogs,  *)
(* which is split into the dispatch (inside the flushing action) and the  *)
(* later settlement of the request (action FetchSettle).                  *)
(*                                                                         *)
(* An optional JavaScript value is a sequence: <<>> is undefined, <<v>>   *)
(* is the value v.  Contrast ratios are in tenths (30 is 3.0).            *)
(***************************************************************************)
EXTENDS Integers, Sequences, FiniteSets, TLC

\* ------------------------------------------------------------------ bounds
MaxRecords == 3
MaxFlushes == 2
MaxConfigs == 1
MaxConfigCalls == 3
MaxSwitches == 2
MaxResets == 1
MaxExits == 1
MaxTime == 1000

\* -------------------------------------------------------- program constants
DefaultFlushInterval == 1000
DefaultMaxBufferSize == 100
ContrastErrorBelow == 30
DefaultRequiredRatio == 45
NanosPerMilli == 1000000

\* The clock of the model advances in steps of at most TickStep milliseconds.
TickStep == 1000

\* The step of the finer clock used for the timed flush.
FineStep == 250

VARIABLES
    config,                  \* config.ts: let config (the overrides)
    logBuffer,               \* a11y-logger.ts: let logBuffer
    flushTimer,              \* a11y-logger.ts: let flushTimer (0 is null)
    shutdownHookRegistered,  \* a11y-logger.ts: let shutdownHookRegistered
    timers,                  \* runtime: the live timers created by setTimeout
    exitSubs,                \* runtime: number of 'beforeExit' listeners
    hasProcess,              \* runtime: process.on is a function
    now,                     \* runtime: the clock, in milliseconds
    calls,                   \* history: the fetch calls, with their outcome
    echoes,                  \* history: the console.log lines
    errors,                  \* history: the console.error reports
    promises,                \* history: one promise per flush invocation
    batches,                 \* history: the detached logsToSend lists
    recorded,                \* history: every entry passed to addLog
    timersArmed,             \* history: number of setTimeout calls
    resets,                  \* history: number of _resetInternalState calls
    configs,                 \* history: the configure/reset-config calls made
    exits                    \* history: number of 'beforeExit' emissions

vars == <<config, logBuffer, flushTimer, shutdownHookRegistered, timers,
          exitSubs, hasProcess, now, calls, echoes, errors, promises,
          batches, recorded, timersArmed, resets, configs, exits>>

\* ---------------------------------------------------------------- config.ts
ConfigKeys == {"lokiUrl", "lokiEnabled", "isDevelopment", "flushInterval",
               "maxBufferSize", "jobLabel", "containerLabel", "environment",
               "serviceLabel", "registerShutdownHook"}

DEFAULTS ==
    [lokiUrl |-> "http://localhost:3100",
     lokiEnabled |-> FALSE,
     isDevelopment |-> FALSE,
     flushInterval |-> DefaultFlushInterval,
     maxBufferSize |-> DefaultMaxBufferSize,
     jobLabel |-> "accessibility",
     containerLabel |-> "stonewall-sveltekit",
     environment |-> "development",
     serviceLabel |-> "a11y-monitoring",
     registerShutdownHook |-> TRUE]

\* let config: A11yLoggerConfig = {}: no key is set.
EmptyConfig == [k \in ConfigKeys |-> <<>>]

\* An optional value is <<>> when undefined and <<v>> when v; null, which a
\* caller can pass as well, is a pair.
JsNull == <<"null", "null">>

\* Mutant: only undefined is replaced (a !== undefined ? a : b).
Nullish_UndefinedOnly(a, b) == IF a = <<>> THEN b ELSE a[1]

\* a ?? b: b when a is undefined or null, a otherwise.
Nullish(a, b) == IF a = <<>> \/ a = JsNull THEN b ELSE a[1]

\* getA11yLoggerConfig applied to a stored config c.
ResolveConfig(c) == [k \in ConfigKeys |-> Nullish(c[k], DEFAULTS[k])]

getA11yLoggerConfig == ResolveConfig(config)

\* Mutant: the argument replaces the stored settings ({ ...c }).
MergeConfig_Replace(old, c) ==
    [k \in ConfigKeys |-> IF k \in DOMAIN c THEN c[k] ELSE <<>>]

\* { ...config, ...c }: every own key of c (a function on a subset of the
\* keys) replaces the stored one, also when its value is undefined.
MergeConfig(old, c) ==
    [k \in ConfigKeys |-> IF k \in DOMAIN c THEN c[k] ELSE old[k]]


\* ------------------------------------------------------------ runtime model
\* new Date().toISOString(): the clock reading as calendar fields
\* <<year, month, day, hour, minute, second, millisecond>> (UTC).  The
\* model's clock stays within the first day of the epoch.
toISOString(ms) ==
    <<1970, 1, 1, ms \div 3600000, (ms \div 60000) % 60,
      (ms \div 1000) % 60, ms % 1000>>

\* new Date(iso).getTime(): epoch milliseconds of the calendar fields.
getTime(iso) ==
    ((iso[4] * 60 + iso[5]) * 60 + iso[6]) * 1000 + iso[7]

\* String.prototype.toUpperCase on the three level names.
toUpperCase(level) ==
    CASE level = "info" -> "INFO"
      [] level = "warn" -> "WARN"
      [] level = "error" -> "ERROR"

\* a || b on strings and on numbers: b when a is undefined or falsy.
OrStr(a, b) == IF a = <<>> \/ a[1] = "" THEN b ELSE a[1]
OrNum(a, b) == IF a = <<>> \/ a[1] = 0 THEN b ELSE a[1]

\* The mutable state a handler of a11y-logger.ts works on, as one record,
\* so that a handler calling another is function composition.
St ==
    [logBuffer |-> logBuffer, flushTimer |-> flushTimer,
     shutdownHookRegistered |-> shutdownHookRegistered, timers |-> timers,
     exitSubs |-> exitSubs, calls |-> calls, echoes |-> echoes,
     errors |-> errors, promises |-> promises, batches |-> batches,
     recorded |-> recorded, timersArmed |-> timersArmed]

Commit(s) ==
    /\ logBuffer' = s.logBuffer
    /\ flushTimer' = s.flushTimer
    /\ shutdownHookRegistered' = s.shutdownHookRegistered
    /\ timers' = s.timers
    /\ exitSubs' = s.exitSubs
    /\ calls' = s.calls
    /\ echoes' = s.echoes
    /\ errors' = s.errors
    /\ promises' = s.promises
    /\ batches' = s.batches
    /\ recorded' = s.recorded
    /\ timersArmed' = s.timersArmed

\* clearTimeout(h): the timer with handle h is no longer live.
clearTimeout(ts, h) == {t \in ts : t.id # h}

\* ------------------------------------------------------------ a11y-logger.ts
\* Mutant: the milliseconds are sent as they are.
WireValue_Millis(log) ==
    [ts |-> ToString(getTime(log.timestamp)),
     json |-> log.labels @@ [level |-> log.level, msg |-> log.message],
     src |-> log.seq]

\* Mutant: the session id is serialized with the labels.
WireValue_Session(log) ==
    [ts |-> ToString(getTime(log.timestamp) * NanosPerMilli),
     json |-> log.labels @@ [level |-> log.level, msg |-> log.message,
                             sessionId |-> log.sessionId],
     src |-> log.seq]

\* One element of `values`: [nanosecond string, JSON object].  The JSON
\* text is kept as the object it encodes; the spread puts the label fields
\* last, so a label overrides level and msg.  src is the entry's position in
\* the recording history (not part of the payload).
WireValue(log) ==
    [ts |-> ToString(getTime(log.timestamp) * NanosPerMilli),
     json |-> log.labels @@ [level |-> log.level, msg |-> log.message],
     src |-> log.seq]

\* Mutant: the level is not upper-cased.
EchoLine_Lower(log) ==
    [text |-> "[A11y " \o log.level \o "] " \o log.message,
     labels |-> log.labels,
     src |-> log.seq]

\* console.log(`[A11y ${LEVEL}] ${message}`, labels)
EchoLine(log) ==
    [text |-> "[A11y " \o toUpperCase(log.level) \o "] " \o log.message,
     labels |-> log.labels,
     src |-> log.seq]

\* Mutant: the last entry is left out of `values`.
PushRequest_DropLast(cfg, logsToSend, batch, promise, reported) ==
    [url |-> cfg.lokiUrl \o "/loki/api/v1/push",
     method |-> "POST",
     contentType |-> "application/json",
     streams |-> << [stream |-> [job |-> cfg.jobLabel,
                                 container |-> cfg.containerLabel,
                                 environment |-> cfg.environment,
                                 service |-> cfg.serviceLabel],
                     values |-> [i \in 1..(Len(logsToSend) - 1) |->
                                    WireValue(logsToSend[i])]] >>,
     batch |-> batch,
     promise |-> promise,
     reported |-> reported,
     outcome |-> "inflight"]

\* The request of lines 58-84 for the detached list logsToSend.
\* batch, promise and reported are bookkeeping of the model: the detached
\* batch the request carries, the promise that awaits it, and the number of
\* failures already reported when it is dispatched.
PushRequest(cfg, logsToSend, batch, promise, reported) ==
    [url |-> cfg.lokiUrl \o "/loki/api/v1/push",
     method |-> "POST",
     contentType |-> "application/json",
     streams |-> << [stream |-> [job |-> cfg.jobLabel,
                                 container |-> cfg.containerLabel,
                                 environment |-> cfg.environment,
                                 service |-> cfg.serviceLabel],
                     values |-> [i \in 1..Len(logsToSend) |->
                                    WireValue(logsToSend[i])]] >>,
     batch |-> batch,
     promise |-> promise,
     reported |-> reported,
     outcome |-> "inflight"]

Promise(trigger, state, batch) ==
    [trigger |-> trigger, state |-> state, batch |-> batch]

\* Mutant: the settings are those read when the module was loaded.
Transport_Cached(s, logsToSend, trigger, b) ==
    LET cfg == ResolveConfig(EmptyConfig)
    IN  IF ~cfg.lokiEnabled
        THEN [s EXCEPT
                !.echoes = @ \o
                   (IF cfg.isDevelopment
                    THEN [i \in 1..Len(logsToSend) |-> EchoLine(logsToSend[i])]
                    ELSE <<>>),
                !.promises = Append(@, Promise(trigger, "resolved", b))]
        ELSE [s EXCEPT
                !.calls = Append(@, PushRequest(cfg, logsToSend, b,
                                                Len(s.promises) + 1,
                                                Len(s.errors))),
                !.promises = Append(@, Promise(trigger, "pending", b))]

\* flushLogs after the detach (lines 46-84), up to its first suspension: the
\* local branch, which completes, or the dispatch of the request.  b is the
\* number of the detached batch logsToSend.
Transport(s, logsToSend, trigger, b) ==
    LET cfg == getA11yLoggerConfig
    IN  IF ~cfg.lokiEnabled
        THEN [s EXCEPT
                !.echoes = @ \o
                   (IF cfg.isDevelopment
                    THEN [i \in 1..Len(logsToSend) |-> EchoLine(logsToSend[i])]
                    ELSE <<>>),
                !.promises = Append(@, Promise(trigger, "resolved", b))]
        ELSE [s EXCEPT
                !.calls = Append(@, PushRequest(cfg, logsToSend, b,
                                                Len(s.promises) + 1,
                                                Len(s.errors))),
                !.promises = Append(@, Promise(trigger, "pending", b))]

\* Mutant: the queue is not cleared when the batch is taken.
flushLogs_KeepBuffer(s, trigger) ==
    IF Len(s.logBuffer) = 0
    THEN [s EXCEPT !.promises = Append(@, Promise(trigger, "resolved", 0))]
    ELSE Transport([s EXCEPT !.batches = Append(@, [entries |-> s.logBuffer,
                                                    trigger |-> trigger,
                                                    handle |-> s.flushTimer])],
                   s.logBuffer, trigger, Len(s.batches) + 1)

\* Mutant: no early return on an empty queue.
flushLogs_NoEmptyCheck(s, trigger) ==
    Transport([s EXCEPT !.logBuffer = <<>>,
                        !.batches = Append(@, [entries |-> s.logBuffer,
                                               trigger |-> trigger,
                                               handle |-> s.flushTimer])],
              s.logBuffer, trigger, Len(s.batches) + 1)

\* flushLogs up to its first suspension: the empty-queue return, then the
\* detach (logsToSend = [...logBuffer]; logBuffer = []) and the transport.
\* A batch keeps, with its entries, what started the flush and the value
\* flushTimer has at the detach.
flushLogs(s, trigger) ==
    IF Len(s.logBuffer) = 0
    THEN [s EXCEPT !.promises = Append(@, Promise(trigger, "resolved", 0))]
    ELSE Transport([s EXCEPT !.logBuffer = <<>>,
                             !.batches = Append(@, [entries |-> s.logBuffer,
                                                    trigger |-> trigger,
                                                    handle |-> s.flushTimer])],
                   s.logBuffer, trigger, Len(s.batches) + 1)

\* Mutant: the queue is emptied when the request has settled, not before.
flushLogsResume_ClearAfter(s, c, outcome) ==
    LET p == s.calls[c].promise
        s1 == [s EXCEPT !.calls[c].outcome = outcome,
                        !.promises[p].state = "resolved",
                        !.logBuffer = <<>>]
    IN  IF outcome = "rejected"
        THEN [s1 EXCEPT !.errors = Append(@,
                 [text |-> "[A11y Logger] Failed to send logs to Loki:",
                  call |-> c])]
        ELSE s1

\* Mutant: the catch reports and rethrows, so a flush nobody awaits ends in
\* an unhandled rejection.
flushLogsResume_Rethrow(s, c, outcome) ==
    LET p == s.calls[c].promise
        s1 == [s EXCEPT !.calls[c].outcome = outcome,
                        !.promises[p].state = "resolved"]
    IN  IF outcome = "rejected"
        THEN [s1 EXCEPT
                !.errors = Append(@,
                    [text |-> "[A11y Logger] Failed to send logs to Loki:",
                     call |-> c]),
                !.promises[p].state = "rejected"]
        ELSE s1

\* Mutant: no try/catch around the await: the rejection propagates.
flushLogsResume_NoCatch(s, c, outcome) ==
    [s EXCEPT !.calls[c].outcome = outcome,
              !.promises[s.calls[c].promise].state =
                  IF outcome = "rejected" THEN "rejected" ELSE "resolved"]

\* Mutant: a failed batch is put back at the front of the queue (a retry).
flushLogsResume_Requeue(s, c, outcome) ==
    LET p == s.calls[c].promise
        s1 == [s EXCEPT !.calls[c].outcome = outcome,
                        !.promises[p].state = "resolved"]
    IN  IF outcome = "rejected"
        THEN [s1 EXCEPT
                !.errors = Append(@,
                    [text |-> "[A11y Logger] Failed to send logs to Loki:",
                     call |-> c]),
                !.logBuffer = s.batches[s.calls[c].batch].entries \o @]
        ELSE s1

\* flushLogs after `await fetch(...)`: request c settles with outcome
\* "ok" (2xx response), "non2xx" (a response with another status) or
\* "rejected" (network error: the promise rejects, the catch reports it).
flushLogsResume(s, c, outcome) ==
    LET p == s.calls[c].promise
        s1 == [s EXCEPT !.calls[c].outcome = outcome,
                        !.promises[p].state = "resolved"]
    IN  IF outcome = "rejected"
        THEN [s1 EXCEPT !.errors = Append(@,
                 [text |-> "[A11y Logger] Failed to send logs to Loki:",
                  call |-> c])]
        ELSE s1

\* Mutant: every call restarts the timer (a debounce).
scheduleFlush_Restart(s) ==
    LET cfg == getA11yLoggerConfig
        h == s.timersArmed + 1
    IN  [s EXCEPT !.flushTimer = h,
                  !.timersArmed = h,
                  !.timers = clearTimeout(@, s.flushTimer)
                                \cup {[id |-> h,
                                       armedAt |-> now,
                                       delay |-> cfg.flushInterval,
                                       due |-> now + cfg.flushInterval]}]

\* Mutant: the handle is stored but the timer is never put on the clock.
scheduleFlush_Lost(s) ==
    IF s.flushTimer # 0
    THEN s
    ELSE LET h == s.timersArmed + 1
         IN  [s EXCEPT !.flushTimer = h,
                       !.timersArmed = h]

\* scheduleFlush: arm the one-shot timer unless one is stored.
scheduleFlush(s) ==
    IF s.flushTimer # 0
    THEN s
    ELSE LET cfg == getA11yLoggerConfig
             h == s.timersArmed + 1
         IN  [s EXCEPT !.flushTimer = h,
                       !.timersArmed = h,
                       !.timers = @ \cup {[id |-> h,
                                           armedAt |-> now,
                                           delay |-> cfg.flushInterval,
                                           due |-> now + cfg.flushInterval]}]

\* Mutant: the timer is armed before the threshold is looked at.
addLog_ArmFirst(s, entry) ==
    LET s1 == scheduleFlush([s EXCEPT !.logBuffer = Append(@, entry),
                                      !.recorded = Append(@, entry)])
        cfg == getA11yLoggerConfig
    IN  IF Len(s1.logBuffer) >= cfg.maxBufferSize
        THEN LET s2 == IF s1.flushTimer # 0
                       THEN [s1 EXCEPT
                               !.timers = clearTimeout(@, s1.flushTimer),
                               !.flushTimer = 0]
                       ELSE s1
             IN  flushLogs(s2, "threshold")
        ELSE s1

\* Mutant: the threshold is the one read when the module was loaded.
addLog_Cached(s, entry) ==
    LET s1 == [s EXCEPT !.logBuffer = Append(@, entry),
                        !.recorded = Append(@, entry)]
    IN  IF Len(s1.logBuffer) >= DEFAULTS.maxBufferSize
        THEN LET s2 == IF s1.flushTimer # 0
                       THEN [s1 EXCEPT
                               !.timers = clearTimeout(@, s1.flushTimer),
                               !.flushTimer = 0]
                       ELSE s1
             IN  flushLogs(s2, "threshold")
        ELSE scheduleFlush(s1)

\* Mutant: the entry is put at the front of the queue.
addLog_Unshift(s, entry) ==
    LET s1 == [s EXCEPT !.logBuffer = <<entry>> \o @,
                        !.recorded = Append(@, entry)]
        cfg == getA11yLoggerConfig
    IN  IF Len(s1.logBuffer) >= cfg.maxBufferSize
        THEN LET s2 == IF s1.flushTimer # 0
                       THEN [s1 EXCEPT
                               !.timers = clearTimeout(@, s1.flushTimer),
                               !.flushTimer = 0]
                       ELSE s1
             IN  flushLogs(s2, "threshold")
        ELSE scheduleFlush(s1)

\* Mutant: the handle is dropped without clearTimeout.
addLog_NoClear(s, entry) ==
    LET s1 == [s EXCEPT !.logBuffer = Append(@, entry),
                        !.recorded = Append(@, entry)]
        cfg == getA11yLoggerConfig
    IN  IF Len(s1.logBuffer) >= cfg.maxBufferSize
        THEN LET s2 == IF s1.flushTimer # 0
                       THEN [s1 EXCEPT
                               !.flushTimer = 0]
                       ELSE s1
             IN  flushLogs(s2, "threshold")
        ELSE scheduleFlush(s1)

\* Mutant: the threshold test is > instead of >=.
addLog_Gt(s, entry) ==
    LET s1 == [s EXCEPT !.logBuffer = Append(@, entry),
                        !.recorded = Append(@, entry)]
        cfg == getA11yLoggerConfig
    IN  IF Len(s1.logBuffer) > cfg.maxBufferSize
        THEN LET s2 == IF s1.flushTimer # 0
                       THEN [s1 EXCEPT
                               !.timers = clearTimeout(@, s1.flushTimer),
                               !.flushTimer = 0]
                       ELSE s1
             IN  flushLogs(s2, "threshold")
        ELSE scheduleFlush(s1)

\* Mutant: the threshold flush is awaited, so the call returns only after
\* the request has settled.
addLog_Blocking(s, entry) ==
    LET s1 == [s EXCEPT !.logBuffer = Append(@, entry),
                        !.recorded = Append(@, entry)]
        cfg == getA11yLoggerConfig
    IN  IF Len(s1.logBuffer) >= cfg.maxBufferSize
        THEN LET s2 == IF s1.flushTimer # 0
                       THEN [s1 EXCEPT
                               !.timers = clearTimeout(@, s1.flushTimer),
                               !.flushTimer = 0]
                       ELSE s1
                 s3 == flushLogs(s2, "threshold")
             IN  IF Len(s3.calls) > Len(s.calls)
                 THEN flushLogsResume(s3, Len(s3.calls), "ok")
                 ELSE s3
        ELSE scheduleFlush(s1)

\* addLog: push, then flush at the threshold or schedule the timed flush.
\* (recorded is the history of the entries pushed.)
addLog(s, entry) ==
    LET s1 == [s EXCEPT !.logBuffer = Append(@, entry),
                        !.recorded = Append(@, entry)]
        cfg == getA11yLoggerConfig
    IN  IF Len(s1.logBuffer) >= cfg.maxBufferSize
        THEN LET s2 == IF s1.flushTimer # 0
                       THEN [s1 EXCEPT
                               !.timers = clearTimeout(@, s1.flushTimer),
                               !.flushTimer = 0]
                       ELSE s1
             IN  flushLogs(s2, "threshold")
        ELSE scheduleFlush(s1)

\* Mutant: the flag is not set after subscribing.
ensureShutdownHook_NoFlag(s) ==
    IF s.shutdownHookRegistered
    THEN s
    ELSE LET cfg == getA11yLoggerConfig
         IN  IF ~cfg.registerShutdownHook
             THEN s
             ELSE IF hasProcess
                  THEN [s EXCEPT !.exitSubs = @ + 1]
                  ELSE s

\* Mutant: the flag is set but nothing is subscribed.
ensureShutdownHook_FlagOnly(s) ==
    IF s.shutdownHookRegistered
    THEN s
    ELSE LET cfg == getA11yLoggerConfig
         IN  IF ~cfg.registerShutdownHook
             THEN s
             ELSE IF hasProcess
                  THEN [s EXCEPT !.shutdownHookRegistered = TRUE]
                  ELSE s

\* ensureShutdownHook: subscribe to 'beforeExit' at most once.
ensureShutdownHook(s) ==
    IF s.shutdownHookRegistered
    THEN s
    ELSE LET cfg == getA11yLoggerConfig
         IN  IF ~cfg.registerShutdownHook
             THEN s
             ELSE IF hasProcess
                  THEN [s EXCEPT !.exitSubs = @ + 1,
                                 !.shutdownHookRegistered = TRUE]
                  ELSE s

\* An entry as built by the recording methods; seq is its position in the
\* recording history (the identity of the JavaScript object).
Entry(s, level, message, sessionId, labels) ==
    [seq |-> Len(s.recorded) + 1,
     level |-> level,
     message |-> message,
     timestamp |-> toISOString(now),
     sessionId |-> sessionId,
     labels |-> labels]

\* labels.elementInfo?.tagName || 'unknown'
TagName(elementInfo) ==
    IF elementInfo = <<>> THEN "unknown"
    ELSE OrStr(<<elementInfo[1].tagName>>, "unknown")

\* Mutant: a ratio of exactly 3 is an error too.
ContrastLevel_Lte(labels) ==
    IF labels.ratio # <<>> /\ labels.ratio[1] <= ContrastErrorBelow
    THEN "error" ELSE "warn"

\* labels.ratio !== undefined && labels.ratio < 3 ? 'error' : 'warn'
\* (ratios in tenths)
ContrastLevel(labels) ==
    IF labels.ratio # <<>> /\ labels.ratio[1] < ContrastErrorBelow
    THEN "error" ELSE "warn"

contrast(s0, message, labels) ==
    LET s == ensureShutdownHook(s0)
    IN  addLog(s, Entry(s, ContrastLevel(labels),
            message, labels.sessionId,
            [type |-> "contrast",
             selector |-> OrStr(labels.selector, "unknown"),
             ratio |-> OrNum(labels.ratio, 0),
             requiredRatio |-> OrNum(labels.requiredRatio, DefaultRequiredRatio),
             foreground |-> OrStr(labels.foreground, "unknown"),
             background |-> OrStr(labels.background, "unknown"),
             wcagLevel |-> OrStr(labels.wcagLevel, "AA"),
             tagName |-> TagName(labels.elementInfo),
             page |-> OrStr(labels.page, ""),
             theme |-> OrStr(labels.theme, "")]))

\* Mutant: any severity other than "warning" is an error.
wcag_NotWarning(s0, message, labels) ==
    LET s == ensureShutdownHook(s0)
    IN  addLog(s, Entry(s,
            IF labels.severity \notin {<<>>, <<"warning">>}
            THEN "error" ELSE "warn",
            message, labels.sessionId,
            [type |-> "wcag",
             selector |-> OrStr(labels.selector, "unknown"),
             rule |-> OrStr(labels.rule, "unknown"),
             wcagLevel |-> OrStr(labels.wcagLevel, "AA"),
             severity |-> OrStr(labels.severity, "warning")]))

wcag(s0, message, labels) ==
    LET s == ensureShutdownHook(s0)
    IN  addLog(s, Entry(s,
            IF labels.severity = <<"error">> THEN "error" ELSE "warn",
            message, labels.sessionId,
            [type |-> "wcag",
             selector |-> OrStr(labels.selector, "unknown"),
             rule |-> OrStr(labels.rule, "unknown"),
             wcagLevel |-> OrStr(labels.wcagLevel, "AA"),
             severity |-> OrStr(labels.severity, "warning")]))

evaluation(s0, message, labels) ==
    LET s == ensureShutdownHook(s0)
    IN  addLog(s, Entry(s, "info", message, labels.sessionId,
            [type |-> "evaluation",
             resultsCount |-> OrNum(labels.resultsCount, 0),
             issuesCount |-> OrNum(labels.issuesCount, 0),
             criticalCount |-> OrNum(labels.criticalCount, 0),
             evaluationTimeMs |-> OrNum(labels.evaluationTimeMs, 0)]))

session(s0, message, labels) ==
    LET s == ensureShutdownHook(s0)
    IN  addLog(s, Entry(s, "info", message, labels.sessionId,
            [type |-> "session",
             action |-> OrStr(labels.action, "unknown"),
             userId |-> OrStr(labels.userId, "anonymous"),
             userAgent |-> OrStr(labels.userAgent, "unknown")]))

error(s0, message, labels) ==
    LET s == ensureShutdownHook(s0)
    IN  addLog(s, Entry(s, "error", message, labels.sessionId,
            [type |-> "error",
             error |-> OrStr(labels.error, "unknown"),
             stack |-> OrStr(labels.stack, "")]))

\* Mutant: the two counts are swapped in the message.
summary_Swapped(s0, data) ==
    LET s == ensureShutdownHook(s0)
    IN  addLog(s, Entry(s, "info",
            "Accessibility summary: " \o ToString(data.criticalIssues)
                \o " issues (" \o ToString(data.issues) \o " critical)",
            data.sessionId,
            [type |-> "summary",
             totalElements |-> data.totalElements,
             evaluatedElements |-> data.evaluatedElements,
             issues |-> data.issues,
             criticalIssues |-> data.criticalIssues,
             evaluationTimeMs |-> data.evaluationTimeMs]))

summary(s0, data) ==
    LET s == ensureShutdownHook(s0)
    IN  addLog(s, Entry(s, "info",
            "Accessibility summary: " \o ToString(data.issues) \o " issues ("
                \o ToString(data.criticalIssues) \o " critical)",
            data.sessionId,
            [type |-> "summary",
             totalElements |-> data.totalElements,
             evaluatedElements |-> data.evaluatedElements,
             issues |-> data.issues,
             criticalIssues |-> data.criticalIssues,
             evaluationTimeMs |-> data.evaluationTimeMs]))

aria(s0, message, labels) ==
    LET s == ensureShutdownHook(s0)
    IN  addLog(s, Entry(s, "warn", message, labels.sessionId,
            [type |-> "aria",
             selector |-> OrStr(labels.selector, "unknown"),
             issue |-> OrStr(labels.issue, "unknown"),
             tagName |-> TagName(labels.elementInfo),
             fix |-> OrStr(labels.fix, ""),
             page |-> OrStr(labels.page, "")]))

\* Mutant: flush() also waits for the requests already in flight.
flush_AwaitInFlight(s, trigger) ==
    LET s1 == IF s.flushTimer # 0
              THEN [s EXCEPT !.timers = clearTimeout(@, s.flushTimer),
                             !.flushTimer = 0]
              ELSE s
        s2 == flushLogs(s1, trigger)
    IN  IF \E c \in DOMAIN s.calls : s.calls[c].outcome = "inflight"
        THEN [s2 EXCEPT !.promises[Len(s2.promises)].state = "pending"]
        ELSE s2

\* Mutant: the pending timer is not cancelled.
flush_NoCancel(s, trigger) ==
    flushLogs(s, trigger)

\* Mutant: flushLogs() is not awaited, so flush() completes at once.
flush_NoAwait(s, trigger) ==
    LET s1 == IF s.flushTimer # 0
              THEN [s EXCEPT !.timers = clearTimeout(@, s.flushTimer),
                             !.flushTimer = 0]
              ELSE s
        s2 == flushLogs(s1, trigger)
    IN  [s2 EXCEPT !.promises[Len(s2.promises)].state = "resolved"]

\* a11yLogger.flush(): cancel the pending timer, then flushLogs.  trigger is
\* "manual" for a caller and "exit" for the 'beforeExit' listener.
flush(s, trigger) ==
    LET s1 == IF s.flushTimer # 0
              THEN [s EXCEPT !.timers = clearTimeout(@, s.flushTimer),
                             !.flushTimer = 0]
              ELSE s
    IN  flushLogs(s1, trigger)

\* Mutant: the callback does not clear the stored handle.
timerCallback_KeepHandle(s, t) ==
    flushLogs([s EXCEPT !.timers = @ \ {t}], "timer")

\* The callback given to setTimeout in scheduleFlush, for live timer t.
timerCallback(s, t) ==
    flushLogs([s EXCEPT !.timers = @ \ {t}, !.flushTimer = 0], "timer")

\* Mutant: the pending timer is left running.
resetInternalState_KeepTimer(s) ==
    [s EXCEPT !.flushTimer = 0,
              !.logBuffer = <<>>,
              !.shutdownHookRegistered = FALSE]

\* Mutant: the hook flag survives the reset.
resetInternalState_KeepFlag(s) ==
    LET s1 == IF s.flushTimer # 0
              THEN [s EXCEPT !.timers = clearTimeout(@, s.flushTimer),
                             !.flushTimer = 0]
              ELSE s
    IN  [s1 EXCEPT !.logBuffer = <<>>]

\* Mutant: the queue is not emptied.
resetInternalState_KeepQueue(s) ==
    LET s1 == IF s.flushTimer # 0
              THEN [s EXCEPT !.timers = clearTimeout(@, s.flushTimer),
                             !.flushTimer = 0]
              ELSE s
    IN  [s1 EXCEPT !.shutdownHookRegistered = FALSE]

\* _resetInternalState
resetInternalState(s) ==
    LET s1 == IF s.flushTimer # 0
              THEN [s EXCEPT !.timers = clearTimeout(@, s.flushTimer),
                             !.flushTimer = 0]
              ELSE s
    IN  [s1 EXCEPT !.logBuffer = <<>>, !.shutdownHookRegistered = FALSE]

\* Emission of 'beforeExit': each of the n listeners calls a11yLogger.flush().
RECURSIVE emitBeforeExit(_, _)
emitBeforeExit(s, n) ==
    IF n = 0 THEN s ELSE emitBeforeExit(flush(s, "exit"), n - 1)

\* ------------------------------------------------------------------ inputs
NoContrastLabels ==
    [sessionId |-> <<>>, selector |-> <<>>, ratio |-> <<>>,
     requiredRatio |-> <<>>, foreground |-> <<>>, background |-> <<>>,
     wcagLevel |-> <<>>, elementInfo |-> <<>>, page |-> <<>>, theme |-> <<>>]

NoWcagLabels ==
    [sessionId |-> <<>>, selector |-> <<>>, rule |-> <<>>,
     wcagLevel |-> <<>>, severity |-> <<>>]

NoEvaluationLabels ==
    [sessionId |-> <<>>, resultsCount |-> <<>>, issuesCount |-> <<>>,
     criticalCount |-> <<>>, evaluationTimeMs |-> <<>>]

NoSessionLabels ==
    [sessionId |-> <<>>, action |-> <<>>, userId |-> <<>>, userAgent |-> <<>>]

NoErrorLabels == [sessionId |-> <<>>, error |-> <<>>, stack |-> <<>>]

NoAriaLabels ==
    [sessionId |-> <<>>, selector |-> <<>>, issue |-> <<>>,
     elementInfo |-> <<>>, fix |-> <<>>, page |-> <<>>]

\* One recording call per kind, with the three levels, an empty message and
\* a session id among them.
AllRecordCalls ==
    { [kind |-> "contrast", message |-> "Low contrast",
       labels |-> [NoContrastLabels EXCEPT !.ratio = <<15>>,
                                           !.selector = <<".btn">>]],
      [kind |-> "wcag", message |-> "", labels |-> NoWcagLabels],
      [kind |-> "evaluation", message |-> "Eval",
       labels |-> [NoEvaluationLabels EXCEPT !.sessionId = <<"s1">>,
                                             !.resultsCount = <<7>>]],
      [kind |-> "session", message |-> "Start",
       labels |-> [NoSessionLabels EXCEPT !.action = <<"start">>]],
      [kind |-> "error", message |-> "Boom", labels |-> NoErrorLabels],
      [kind |-> "summary",
       labels |-> [totalElements |-> 9, evaluatedElements |-> 8, issues |-> 2,
                   criticalIssues |-> 0, evaluationTimeMs |-> 5,
                   sessionId |-> <<>>]],
      [kind |-> "aria", message |-> "No label",
       labels |-> [NoAriaLabels EXCEPT
                     !.elementInfo = <<[tagName |-> "div"]>>]] }

\* The recording calls of the scheduler's specification.
RecordKinds == {"contrast", "wcag", "evaluation"}

RecordCalls == {c \in AllRecordCalls : c.kind \in RecordKinds}

\* The arguments of configureA11yLogger: partial settings objects.
ConfigInputs ==
    { [maxBufferSize |-> <<1>>],
      [maxBufferSize |-> <<2>>],
      [lokiEnabled |-> <<TRUE>>, maxBufferSize |-> <<2>>],
      [isDevelopment |-> <<TRUE>>],
      [registerShutdownHook |-> <<FALSE>>],
      [lokiEnabled |-> <<TRUE>>, flushInterval |-> <<500>>,
       lokiUrl |-> <<"http://loki:3100">>,
       jobLabel |-> <<"j">>, containerLabel |-> <<"c">>,
       environment |-> <<"production">>, serviceLabel |-> <<"s">>] }

FetchOutcomes == {"ok", "non2xx", "rejected"}

\* The method of a11yLogger that call c invokes.
Invoke(s, c) ==
    CASE c.kind = "contrast" -> contrast(s, c.message, c.labels)
      [] c.kind = "wcag" -> wcag(s, c.message, c.labels)
      [] c.kind = "evaluation" -> evaluation(s, c.message, c.labels)
      [] c.kind = "session" -> session(s, c.message, c.labels)
      [] c.kind = "error" -> error(s, c.message, c.labels)
      [] c.kind = "summary" -> summary(s, c.labels)
      [] c.kind = "aria" -> aria(s, c.message, c.labels)

\* ----------------------------------------------------------------- actions
Init ==
    /\ config = EmptyConfig
    /\ logBuffer = <<>>
    /\ flushTimer = 0
    /\ shutdownHookRegistered = FALSE
    /\ timers = {}
    /\ exitSubs = 0
    /\ hasProcess \in BOOLEAN
    /\ now = 0
    /\ calls = <<>>
    /\ echoes = <<>>
    /\ errors = <<>>
    /\ promises = <<>>
    /\ batches = <<>>
    /\ recorded = <<>>
    /\ timersArmed = 0
    /\ resets = 0
    /\ configs = <<>>
    /\ exits = 0

ManualFlushes ==
    Cardinality({i \in 1..Len(promises) : promises[i].trigger = "manual"})

InFlight == {c \in 1..Len(calls) : calls[c].outcome = "inflight"}

\* A recording call a11yLogger.<kind>(...).
Record(c) ==
    /\ Len(recorded) < MaxRecords
    /\ Commit(Invoke(St, c))
    /\ UNCHANGED <<config, hasProcess, now, resets, configs, exits>>

\* The timer of scheduleFlush expires and its callback runs.
TimerFire(t) ==
    /\ t \in timers
    /\ t.due <= now
    /\ Commit(timerCallback(St, t))
    /\ UNCHANGED <<config, hasProcess, now, resets, configs, exits>>

\* A caller invokes a11yLogger.flush().
Flush ==
    /\ ManualFlushes < MaxFlushes
    /\ Commit(flush(St, "manual"))
    /\ UNCHANGED <<config, hasProcess, now, resets, configs, exits>>

\* The request of call c settles and flushLogs resumes after its await.
FetchSettle(c, outcome) ==
    /\ c \in InFlight
    /\ Commit(flushLogsResume(St, c, outcome))
    /\ UNCHANGED <<config, hasProcess, now, resets, configs, exits>>

\* The event loop runs empty and the process emits 'beforeExit'.
BeforeExit ==
    /\ hasProcess
    /\ exits < MaxExits
    /\ InFlight = {}
    /\ Commit(emitBeforeExit(St, exitSubs))
    /\ exits' = exits + 1
    /\ UNCHANGED <<config, hasProcess, now, resets, configs>>

\* Mutant: the reset of the internal state also restores the default
\* settings.
Reset_Settings ==
    /\ resets < MaxResets
    /\ Commit(resetInternalState(St))
    /\ resets' = resets + 1
    /\ config' = EmptyConfig
    /\ UNCHANGED <<hasProcess, now, configs, exits>>

\* _resetInternalState()
Reset ==
    /\ resets < MaxResets
    /\ Commit(resetInternalState(St))
    /\ resets' = resets + 1
    /\ UNCHANGED <<config, hasProcess, now, configs, exits>>

\* configureA11yLogger(c)
ConfigureWithin(c, max) ==
    /\ Len(configs) < max
    /\ config' = MergeConfig(config, c)
    /\ configs' = Append(configs, [op |-> "configure", arg |-> c])
    /\ UNCHANGED <<logBuffer, flushTimer, shutdownHookRegistered, timers,
                   exitSubs, hasProcess, now, calls, echoes, errors,
                   promises, batches, recorded, timersArmed, resets, exits>>

\* resetA11yLoggerConfig()
ResetConfigWithin(max) ==
    /\ Len(configs) < max
    /\ config' = EmptyConfig
    /\ configs' = Append(configs, [op |-> "reset"])
    /\ UNCHANGED <<logBuffer, flushTimer, shutdownHookRegistered, timers,
                   exitSubs, hasProcess, now, calls, echoes, errors,
                   promises, batches, recorded, timersArmed, resets, exits>>

Configure(c) == ConfigureWithin(c, MaxConfigs)

ResetConfig == ResetConfigWithin(MaxConfigs)

\* Time passes: by TickStep, or up to the expiry of the next live timer when
\* that comes first (a timer fires at its expiry, not later).
NextExpiry(limit) ==
    IF \E t \in timers : t.due < limit
    THEN CHOOSE d \in {t.due : t \in timers} :
             \A t \in timers : d <= t.due
    ELSE limit

TickBy(step) ==
    /\ now + step <= MaxTime
    /\ \A t \in timers : now < t.due
    /\ now' = NextExpiry(now + step)
    /\ UNCHANGED <<config, logBuffer, flushTimer, shutdownHookRegistered,
                   timers, exitSubs, hasProcess, calls, echoes, errors,
                   promises, batches, recorded, timersArmed, resets, configs,
                   exits>>

Tick == TickBy(TickStep)

\* The calls of the lifecycle specification: one kind suffices there.
LifeRecordCalls == {c \in AllRecordCalls : c.kind = "contrast"}

\* The scheduler with its transport and its settings.
Next ==
    \/ \E c \in RecordCalls : Record(c)
    \/ \E t \in timers : TimerFire(t)
    \/ Flush
    \/ \E c \in 1..Len(calls), o \in FetchOutcomes : FetchSettle(c, o)
    \/ \E c \in ConfigInputs : Configure(c)
    \/ ResetConfig
    \/ Tick

Spec == Init /\ [][Next]_vars

\* The same with the process lifecycle: state reset and 'beforeExit'.
NextLife ==
    \/ \E c \in LifeRecordCalls : Record(c)
    \/ \E t \in timers : TimerFire(t)
    \/ Flush
    \/ \E c \in 1..Len(calls), o \in FetchOutcomes : FetchSettle(c, o)
    \/ \E c \in ConfigInputs : Configure(c)
    \/ ResetConfig
    \/ Tick
    \/ BeforeExit
    \/ Reset

SpecLife == Init /\ [][NextLife]_vars

\* The settings that bear on the timed flush.
TimeConfigInputs ==
    { [flushInterval |-> <<500>>],
      [maxBufferSize |-> <<2>>] }

\* The timed flush on a finer clock: recording calls at any quarter of the
\* default interval, the settings changing before or after the arming.
NextTime ==
    \/ \E c \in LifeRecordCalls : Record(c)
    \/ \E t \in timers : TimerFire(t)
    \/ \E c \in TimeConfigInputs : Configure(c)
    \/ TickBy(FineStep)

SpecTime == Init /\ [][NextTime]_vars

\* Contrast calls around the ratio 3.0 (in tenths), each with a message of
\* its own: no ratio, negative, zero, just under, exactly 3, just over, high.
ShapeCalls ==
    { [kind |-> "contrast", message |-> "Undefined",
       labels |-> NoContrastLabels],
      [kind |-> "contrast", message |-> "Negative",
       labels |-> [NoContrastLabels EXCEPT !.ratio = <<-10>>]],
      [kind |-> "contrast", message |-> "Zero",
       labels |-> [NoContrastLabels EXCEPT !.ratio = <<0>>]],
      [kind |-> "contrast", message |-> "Just under",
       labels |-> [NoContrastLabels EXCEPT !.ratio = <<29>>]],
      [kind |-> "contrast", message |-> "Exactly three",
       labels |-> [NoContrastLabels EXCEPT !.ratio = <<30>>]],
      [kind |-> "contrast", message |-> "Just over",
       labels |-> [NoContrastLabels EXCEPT !.ratio = <<31>>]],
      [kind |-> "contrast", message |-> "High contrast",
       labels |-> [NoContrastLabels EXCEPT !.ratio = <<210>>]] }

\* The recording methods applied to the inputs that decide an entry's shape.
NextShape ==
    \/ \E c \in ShapeCalls : Record(c)

SpecShape == Init /\ [][NextShape]_vars

\* Calls of every kind, each with a session id of its own, with fields
\* omitted, supplied, and supplied as the empty string or zero.
KindCalls ==
    { [kind |-> "contrast", message |-> "Minimal",
       labels |-> [NoContrastLabels EXCEPT !.sessionId = <<"c1">>]],
      [kind |-> "contrast", message |-> "Full labels",
       labels |-> [sessionId |-> <<"c2">>, selector |-> <<".heading">>,
                   ratio |-> <<21>>, requiredRatio |-> <<70>>,
                   foreground |-> <<"#000">>, background |-> <<"#333">>,
                   wcagLevel |-> <<"AAA">>,
                   elementInfo |-> <<[tagName |-> "h2"]>>,
                   page |-> <<"/about">>, theme |-> <<"dark">>]],
      [kind |-> "contrast", message |-> "Falsy",
       labels |-> [NoContrastLabels EXCEPT !.sessionId = <<"c3">>,
                                           !.selector = <<"">>,
                                           !.ratio = <<0>>,
                                           !.requiredRatio = <<0>>,
                                           !.page = <<"">>]],
      [kind |-> "wcag", message |-> "Minimal",
       labels |-> [NoWcagLabels EXCEPT !.sessionId = <<"w1">>]],
      [kind |-> "wcag", message |-> "Error",
       labels |-> [sessionId |-> <<"w2">>, selector |-> <<"img">>,
                   rule |-> <<"image-alt">>, wcagLevel |-> <<"A">>,
                   severity |-> <<"error">>]],
      [kind |-> "wcag", message |-> "Warning",
       labels |-> [NoWcagLabels EXCEPT !.sessionId = <<"w3">>,
                                       !.severity = <<"warning">>]],
      [kind |-> "wcag", message |-> "Info",
       labels |-> [NoWcagLabels EXCEPT !.sessionId = <<"w4">>,
                                       !.severity = <<"info">>]],
      [kind |-> "wcag", message |-> "Empty",
       labels |-> [NoWcagLabels EXCEPT !.sessionId = <<"w5">>,
                                       !.severity = <<"">>]],
      [kind |-> "wcag", message |-> "Upper",
       labels |-> [NoWcagLabels EXCEPT !.sessionId = <<"w6">>,
                                       !.severity = <<"ERROR">>]],
      [kind |-> "evaluation", message |-> "Minimal",
       labels |-> [NoEvaluationLabels EXCEPT !.sessionId = <<"e1">>]],
      [kind |-> "evaluation", message |-> "Full",
       labels |-> [sessionId |-> <<"e2">>, resultsCount |-> <<7>>,
                   issuesCount |-> <<3>>, criticalCount |-> <<0>>,
                   evaluationTimeMs |-> <<12>>]],
      [kind |-> "session", message |-> "Minimal",
       labels |-> [NoSessionLabels EXCEPT !.sessionId = <<"s1">>]],
      [kind |-> "session", message |-> "Full",
       labels |-> [sessionId |-> <<"s2">>, action |-> <<"start">>,
                   userId |-> <<"u1">>, userAgent |-> <<"Mozilla">>]],
      [kind |-> "session", message |-> "Falsy",
       labels |-> [NoSessionLabels EXCEPT !.sessionId = <<"s3">>,
                                          !.userId = <<"">>]],
      [kind |-> "error", message |-> "Minimal",
       labels |-> [NoErrorLabels EXCEPT !.sessionId = <<"x1">>]],
      [kind |-> "error", message |-> "Full",
       labels |-> [sessionId |-> <<"x2">>, error |-> <<"TypeError">>,
                   stack |-> <<"at f">>]],
      [kind |-> "aria", message |-> "Minimal",
       labels |-> [NoAriaLabels EXCEPT !.sessionId = <<"a1">>]],
      [kind |-> "aria", message |-> "Full",
       labels |-> [sessionId |-> <<"a2">>, selector |-> <<"div">>,
                   issue |-> <<"missing-label">>,
                   elementInfo |-> <<[tagName |-> "div"]>>,
                   fix |-> <<"add aria-label">>, page |-> <<"/">>]] }

\* Summary calls: the two counts at zero, one digit, and several digits.
SummaryCalls ==
    { [kind |-> "summary",
       labels |-> [totalElements |-> 9, evaluatedElements |-> 8,
                   issues |-> n[1], criticalIssues |-> n[2],
                   evaluationTimeMs |-> 5, sessionId |-> <<n[3]>>]]
      : n \in { <<0, 0, "y1">>, <<5, 2, "y2">>, <<10, 0, "y3">>,
                <<120, 19, "y4">>, <<7, 1005, "y5">> } }

\* The recording methods of every kind applied to these calls.
NextKinds ==
    \/ \E c \in KindCalls : Record(c)
    \/ \E c \in SummaryCalls : Record(c)

SpecKinds == Init /\ [][NextKinds]_vars

\* Arguments of configureA11yLogger for the settings store: keys set, set
\* again, set to the falsy values 0, false and "", passed as undefined or
\* null, and no key at all.
StoreInputs ==
    { [lokiUrl |-> <<"http://a">>, jobLabel |-> <<"j1">>],
      [lokiUrl |-> <<"http://b">>, lokiEnabled |-> <<TRUE>>],
      [lokiEnabled |-> <<FALSE>>, flushInterval |-> <<0>>,
       environment |-> <<"">>],
      [lokiUrl |-> <<>>, maxBufferSize |-> <<5>>],
      [jobLabel |-> JsNull, registerShutdownHook |-> <<FALSE>>],
      [k \in {} |-> <<>>] }

\* The settings store alone: configure and reset-config calls in any order.
NextConfig ==
    \/ \E c \in StoreInputs : ConfigureWithin(c, MaxConfigCalls)
    \/ ResetConfigWithin(MaxConfigCalls)

SpecConfig == Init /\ [][NextConfig]_vars

\* Settings made once at startup, before the first recording call:
\* a threshold within reach of the recording calls, either transport.
FixedInputs ==
    { [maxBufferSize |-> <<n>>, lokiEnabled |-> <<b>>] :
        n \in 1..MaxRecords, b \in BOOLEAN }

\* The state after construction and one configureA11yLogger call.
InitFixed ==
    /\ \E c \in FixedInputs :
          /\ config = MergeConfig(EmptyConfig, c)
          /\ configs = <<[op |-> "configure", arg |-> c]>>
    /\ logBuffer = <<>>
    /\ flushTimer = 0
    /\ shutdownHookRegistered = FALSE
    /\ timers = {}
    /\ exitSubs = 0
    /\ hasProcess \in BOOLEAN
    /\ now = 0
    /\ calls = <<>>
    /\ echoes = <<>>
    /\ errors = <<>>
    /\ promises = <<>>
    /\ batches = <<>>
    /\ recorded = <<>>
    /\ timersArmed = 0
    /\ resets = 0
    /\ exits = 0

\* The scheduler under settings that stay as they were made at startup.
NextFixed ==
    \/ \E c \in LifeRecordCalls : Record(c)
    \/ \E t \in timers : TimerFire(t)
    \/ Flush
    \/ \E c \in 1..Len(calls), o \in FetchOutcomes : FetchSettle(c, o)
    \/ Tick

SpecFixed == InitFixed /\ [][NextFixed]_vars

\* Settings changed after startup: the transport switched on with a stream
\* identity of its own, or switched off with the echo on; both lower the
\* threshold to one.
SwitchInputs ==
    { [lokiEnabled |-> <<TRUE>>, lokiUrl |-> <<"http://loki:3100">>,
       jobLabel |-> <<"j">>, containerLabel |-> <<"c">>,
       environment |-> <<"production">>, serviceLabel |-> <<"s">>,
       maxBufferSize |-> <<1>>],
      [lokiEnabled |-> <<FALSE>>, isDevelopment |-> <<TRUE>>,
       maxBufferSize |-> <<1>>] }

\* The scheduler with the settings made at startup and changed once later.
NextSwitch ==
    \/ \E c \in LifeRecordCalls : Record(c)
    \/ \E t \in timers : TimerFire(t)
    \/ Flush
    \/ \E c \in 1..Len(calls), o \in FetchOutcomes : FetchSettle(c, o)
    \/ \E c \in SwitchInputs : ConfigureWithin(c, MaxSwitches)
    \/ Tick

SpecSwitch == InitFixed /\ [][NextSwitch]_vars

\* Time passes up to the expiry of the next live timer, however far that is:
\* a timer armed by setTimeout expires after its delay.
Expire ==
    /\ timers # {}
    /\ \A t \in timers : now < t.due
    /\ now' = CHOOSE d \in {t.due : t \in timers} :
                  \A t \in timers : d <= t.due
    /\ UNCHANGED <<config, logBuffer, flushTimer, shutdownHookRegistered,
                   timers, exitSubs, hasProcess, calls, echoes, errors,
                   promises, batches, recorded, timersArmed, resets, configs,
                   exits>>

\* The scheduler with no reset and the transport off, on a clock that
\* reaches every expiry.
NextLive ==
    \/ \E c \in LifeRecordCalls : Record(c)
    \/ \E t \in timers : TimerFire(t)
    \/ Flush
    \/ \E c \in TimeConfigInputs : Configure(c)
    \/ Tick
    \/ Expire

\* The event loop runs the callback of every timer that has expired and was
\* not cancelled, and every live timer expires; callers need not ever call
\* again.
SpecLive ==
    /\ Init
    /\ [][NextLive]_vars
    /\ WF_vars(Expire)
    /\ WF_vars(\E t \in timers : TimerFire(t))

\* ================================================================== claims
NoReset == resets = 0

RECURSIVE FlattenBatches(_)
FlattenBatches(bs) ==
    IF bs = <<>> THEN <<>> ELSE bs[1].entries \o FlattenBatches(Tail(bs))

\* The places where the entry recorded as number i is held: in the queue
\* (batch 0) or in a detached batch.
Holders(i) ==
    {<<0, k>> : k \in {k \in DOMAIN logBuffer : logBuffer[k].seq = i}}
    \cup UNION { {<<b, k>> : k \in {k \in DOMAIN batches[b].entries :
                                       batches[b].entries[k].seq = i}}
                 : b \in DOMAIN batches }

\* C1: with no reset, every recorded entry is at all times in exactly one
\* place, the queue or one detached batch, and it is there unchanged: no
\* entry is in two batches, none is lost, also while a send is in flight.
C1_ExactlyOneOwner ==
    NoReset =>
        \A i \in DOMAIN recorded :
            /\ Cardinality(Holders(i)) = 1
            /\ \A h \in Holders(i) :
                  IF h[1] = 0 THEN logBuffer[h[2]] = recorded[i]
                  ELSE batches[h[1]].entries[h[2]] = recorded[i]

\* C1 witness: an entry was recorded while a send is in flight.
C1_Witness ==
    /\ InFlight # {}
    /\ Len(logBuffer) >= 1
    /\ \E c \in InFlight : Len(batches[calls[c].batch].entries) >= 2

\* C2: with no reset, the batches in the order they were detached, followed
\* by the queue, are the recorded entries in call order.
C2_OrderPreserved ==
    NoReset => FlattenBatches(batches) \o logBuffer = recorded

\* C2 witness: two batches were detached, one of them with two entries.
C2_Witness ==
    /\ Len(batches) >= 2
    /\ \E b \in DOMAIN batches : Len(batches[b].entries) >= 2

\* C3: at most one timer is live and a live timer is the one the handle
\* refers to; a recording call made while a timer is pending arms no timer.
C3_AtMostOneTimer ==
    /\ [](/\ Cardinality(timers) <= 1
          /\ \A t \in timers : t.id = flushTimer)
    /\ [][(Len(recorded') = Len(recorded) + 1 /\ flushTimer # 0)
            => timersArmed' = timersArmed]_vars

\* C3 witness: a second recording call was made while the timer was pending.
C3_Witness ==
    /\ flushTimer # 0
    /\ timers # {}
    /\ Len(logBuffer) >= 2
    /\ timersArmed = 1

\* C4: a recording call at queue length maxBufferSize - 1 detaches the whole
\* queue with the new entry, leaves the queue empty, no handle and no live
\* timer; a timer that is no longer live never becomes live again; a call
\* that leaves the queue below the threshold detaches and sends nothing.
C4_ThresholdFlush ==
    [][ /\ \A t \in timers' : t \in timers \/ t.id > timersArmed
        /\ (Len(recorded') = Len(recorded) + 1) =>
             LET max == IF config.maxBufferSize = <<>> THEN 100
                        ELSE config.maxBufferSize[1]
                 new == recorded'[Len(recorded')]
             IN  /\ (Len(logBuffer) = max - 1) =>
                       /\ logBuffer' = <<>>
                       /\ flushTimer' = 0
                       /\ timers' = {}
                       /\ batches' = Append(batches,
                              [entries |-> Append(logBuffer, new),
                               trigger |-> "threshold",
                               handle |-> 0])
                 /\ (Len(logBuffer) + 1 < max) =>
                       /\ logBuffer' = Append(logBuffer, new)
                       /\ batches' = batches
                       /\ calls' = calls
                       /\ echoes' = echoes
                       /\ promises' = promises ]_vars

\* C4 witness: the second call reached the threshold of 2 and cancelled the
\* timer armed by the first.
C4_Witness ==
    /\ Len(batches) = 1
    /\ batches[1].trigger = "threshold"
    /\ Len(batches[1].entries) = 2
    /\ timersArmed = 1
    /\ timers = {}
    /\ flushTimer = 0

\* C5: N recording calls with no flush of any kind in between (hence no
\* threshold crossing and no timer firing) and no reset leave a queue of
\* length N that holds the entries in call order.
C5_Accumulation ==
    (promises = <<>> /\ NoReset) =>
        /\ Len(logBuffer) = Len(recorded)
        /\ logBuffer = recorded

\* C5 witness: three calls of three kinds are queued.
C5_Witness ==
    /\ promises = <<>>
    /\ Len(logBuffer) = 3
    /\ {logBuffer[k].labels.type : k \in 1..3}
          = {"contrast", "wcag", "evaluation"}

\* The settings as the claims state them: the configured value, or the
\* documented default.
LokiEnabledNow == config.lokiEnabled = <<TRUE>>
IsDevelopmentNow == config.isDevelopment = <<TRUE>>
Configured(key, default) ==
    IF config[key] = <<>> THEN default ELSE config[key][1]

\* A step that detaches one batch / that runs a manual flush().
Detaches == Len(batches') = Len(batches) + 1
Records == Len(recorded') = Len(recorded) + 1
NewBatch == batches'[Len(batches')]
ManualFlushStep ==
    /\ Len(promises') = Len(promises) + 1
    /\ promises'[Len(promises')].trigger = "manual"

\* C6: a flush that finds the queue empty (manual, timer or exit hook) makes
\* no transport call and no echo, reports no error, and changes nothing but
\* the pending timer, which it cancels; its promise is resolved.  No
\* transport call carries zero entries and no batch is empty.
C6_EmptyFlushNoOp ==
    /\ [](/\ \A c \in DOMAIN calls : Len(calls[c].streams[1].values) >= 1
          /\ \A b \in DOMAIN batches : Len(batches[b].entries) >= 1)
    /\ [][(logBuffer = <<>> /\ recorded' = recorded
             /\ Len(promises') > Len(promises)) =>
            /\ calls' = calls
            /\ echoes' = echoes
            /\ errors' = errors
            /\ batches' = batches
            /\ logBuffer' = <<>>
            /\ config' = config
            /\ shutdownHookRegistered' = shutdownHookRegistered
            /\ exitSubs' = exitSubs
            /\ timersArmed' = timersArmed
            /\ flushTimer' = 0
            /\ timers' = {t \in timers : t.id # flushTimer}
            /\ SubSeq(promises', 1, Len(promises)) = promises
            /\ \A p \in (Len(promises) + 1)..Len(promises') :
                  /\ promises'[p].state = "resolved"
                  /\ promises'[p].batch = 0 ]_vars

\* C6 witness: a manual flush and an exit-hook flush both found the queue
\* empty.
C6_Witness ==
    /\ \E p \in DOMAIN promises :
          promises[p] = Promise("manual", "resolved", 0)
    /\ \E p \in DOMAIN promises :
          promises[p] = Promise("exit", "resolved", 0)

\* C7: with lokiEnabled true, a flush of K >= 1 queued entries makes exactly
\* one transport call: a POST to {lokiUrl}/loki/api/v1/push with one stream,
\* K values in insertion order, and the configured or default stream labels.
C7_OneCallPerBatch ==
    [][(Detaches /\ LokiEnabledNow) =>
         LET batch == NewBatch.entries
             K == Len(batch)
             c == calls'[Len(calls')]
         IN  /\ batch = IF Records
                        THEN Append(logBuffer, recorded'[Len(recorded')])
                        ELSE logBuffer
             /\ K >= 1
             /\ Len(calls') = Len(calls) + 1
             /\ SubSeq(calls', 1, Len(calls)) = calls
             /\ c.url = Configured("lokiUrl", "http://localhost:3100")
                           \o "/loki/api/v1/push"
             /\ c.method = "POST"
             /\ c.contentType = "application/json"
             /\ Len(c.streams) = 1
             /\ c.streams[1].stream =
                   [job |-> Configured("jobLabel", "accessibility"),
                    container |->
                        Configured("containerLabel", "stonewall-sveltekit"),
                    environment |-> Configured("environment", "development"),
                    service |-> Configured("serviceLabel", "a11y-monitoring")]
             /\ Len(c.streams[1].values) = K
             /\ \A i \in 1..K :
                   /\ c.streams[1].values[i].src = batch[i].seq
                   /\ c.streams[1].values[i].json.msg = batch[i].message
                   /\ c.streams[1].values[i].json.level = batch[i].level
             /\ echoes' = echoes ]_vars

\* C7 witness: a call with configured labels carries two or more values.
C7_Witness ==
    \E c \in DOMAIN calls :
        /\ calls[c].streams[1].stream.job = "j"
        /\ calls[c].url = "http://loki:3100/loki/api/v1/push"
        /\ Len(calls[c].streams[1].values) >= 2

\* "[A11y {LEVEL}] {message}" with the level in upper case.
ExpectedEcho(log) ==
    (CASE log.level = "info" -> "[A11y INFO] "
       [] log.level = "warn" -> "[A11y WARN] "
       [] log.level = "error" -> "[A11y ERROR] ") \o log.message

\* C8: with lokiEnabled false, a flush of K entries makes no transport call
\* and empties the queue; with isDevelopment true it echoes the K entries,
\* one line each, in queue order, as "[A11y LEVEL] message" with the labels;
\* with isDevelopment false it prints nothing.
C8_LocalEcho ==
    [][(Detaches /\ ~LokiEnabledNow) =>
         LET batch == NewBatch.entries
             K == Len(batch)
         IN  /\ batch = IF Records
                        THEN Append(logBuffer, recorded'[Len(recorded')])
                        ELSE logBuffer
             /\ calls' = calls
             /\ errors' = errors
             /\ logBuffer' = <<>>
             /\ IF IsDevelopmentNow
                THEN /\ Len(echoes') = Len(echoes) + K
                     /\ SubSeq(echoes', 1, Len(echoes)) = echoes
                     /\ \A i \in 1..K :
                          LET e == echoes'[Len(echoes) + i]
                          IN  /\ e.text = ExpectedEcho(batch[i])
                              /\ e.labels = batch[i].labels
                              /\ e.src = batch[i].seq
                ELSE echoes' = echoes ]_vars

\* C8 witness: one batch of three entries of the three levels was echoed.
C8_Witness ==
    /\ Len(batches) = 1
    /\ Len(echoes) = 3
    /\ calls = <<>>
    /\ {echoes[i].text : i \in 1..3}
          = {"[A11y ERROR] Low contrast", "[A11y WARN] ", "[A11y INFO] Eval"}

\* C9: a failing transport call is absorbed: no promise of a flush is ever
\* rejected; when the request fails its promise resolves and the entries are
\* not put back; a manual flush leaves the queue empty; and after a failure
\* a recording call is accepted and a manual flush of a non-empty queue
\* makes a new transport call with the whole queue.
C9_FailureAbsorbed ==
    /\ [](\A p \in DOMAIN promises : promises[p].state # "rejected")
    /\ [][\A c \in DOMAIN calls :
            (calls[c].outcome = "inflight" /\ calls'[c].outcome = "rejected")
            => /\ promises'[calls[c].promise].state = "resolved"
               /\ calls' = [calls EXCEPT ![c].outcome = "rejected"]
               /\ logBuffer' = logBuffer
               /\ batches' = batches ]_vars
    /\ [][ManualFlushStep => logBuffer' = <<>>]_vars
    /\ [][(\E c \in DOMAIN calls : calls[c].outcome = "rejected") =>
            /\ Records =>
                 LET new == recorded'[Len(recorded')]
                 IN  \/ logBuffer' = Append(logBuffer, new)
                     \/ Detaches /\ NewBatch.entries = Append(logBuffer, new)
            /\ (ManualFlushStep /\ logBuffer # <<>> /\ LokiEnabledNow) =>
                 /\ Len(calls') = Len(calls) + 1
                 /\ calls'[Len(calls')].outcome = "inflight"
                 /\ [i \in 1..Len(logBuffer) |->
                        calls'[Len(calls')].streams[1].values[i].src]
                      = [i \in 1..Len(logBuffer) |-> logBuffer[i].seq] ]_vars

\* C9 witness: a manual flush failed and was reported, its promise is
\* resolved, and a request dispatched after that has succeeded.
C9_Witness ==
    \E c1, c2 \in DOMAIN calls :
        /\ calls[c1].outcome = "rejected"
        /\ promises[calls[c1].promise] =
              Promise("manual", "resolved", calls[c1].batch)
        /\ \E e \in DOMAIN errors : errors[e].call = c1
        /\ calls[c2].reported >= 1
        /\ calls[c2].outcome = "ok"
        /\ logBuffer = <<>>

\* C10: every failed send - a rejected request (network unreachable) or a
\* response with a non-2xx status - is reported to the diagnostic sink.
C10_EveryFailureReported ==
    \A c \in DOMAIN calls :
        calls[c].outcome \in {"rejected", "non2xx"}
            => \E e \in DOMAIN errors : errors[e].call = c

\* The transport values and the echo lines that carry the entry recorded as
\* number i.
Deliveries(i) ==
    UNION { {<<"call", c, k>> :
                k \in {k \in DOMAIN calls[c].streams[1].values :
                          calls[c].streams[1].values[k].src = i}}
            : c \in DOMAIN calls }
    \cup {<<"echo", e, 0>> : e \in {e \in DOMAIN echoes : echoes[e].src = i}}

Failed(c) == calls[c].outcome \in {"rejected", "non2xx"}

\* C11: delivery is at-most-once: a detached batch is carried by at most one
\* transport call, every entry is delivered (sent or echoed) at most once,
\* and the entries of a failed call are not in the queue and in no other
\* call or echo.
C11_AtMostOnce ==
    /\ \A b \in DOMAIN batches :
          Cardinality({c \in DOMAIN calls : calls[c].batch = b}) <= 1
    /\ \A i \in DOMAIN recorded : Cardinality(Deliveries(i)) <= 1
    /\ \A c \in DOMAIN calls :
          /\ Len(calls[c].streams[1].values) = Len(batches[calls[c].batch].entries)
          /\ Failed(c) =>
                \A k \in DOMAIN calls[c].streams[1].values :
                    LET i == calls[c].streams[1].values[k].src
                    IN  /\ \A q \in DOMAIN logBuffer : logBuffer[q].seq # i
                        /\ Deliveries(i) = {<<"call", c, k>>}

\* C11 witness: after a failed call a later call was dispatched and a
\* further entry is queued.
C11_Witness ==
    \E c1, c2 \in DOMAIN calls :
        /\ calls[c1].outcome = "rejected"
        /\ calls[c2].reported >= 1
        /\ Len(logBuffer) >= 1

\* A recording call made in the Idle state (queue empty, no live timer)
\* leaves exactly one live timer, newly armed and referenced by the handle.
RearmsOneTimer ==
    /\ timersArmed' = timersArmed + 1
    /\ flushTimer' = timersArmed'
    /\ Cardinality(timers') = 1
    /\ \A t \in timers' : t.id = flushTimer'

\* C12 as stated: every recording call made in the Idle state, after a timed
\* flush or initially, leaves exactly one timer armed.
C12_RearmAlways ==
    [][(Records /\ logBuffer = <<>> /\ timers = {}) => RearmsOneTimer]_vars

\* C12, amended: a recording call made in the Idle state (after a timed
\* flush, or initially) that leaves the queue below maxBufferSize arms
\* exactly one new timer; when maxBufferSize <= 1 the call flushes at once
\* and arms none.
C12_RearmBelowThreshold ==
    [][(Records /\ logBuffer = <<>> /\ timers = {}) =>
         IF 1 < Configured("maxBufferSize", 100)
         THEN RearmsOneTimer
         ELSE /\ timers' = {}
              /\ flushTimer' = 0
              /\ timersArmed' = timersArmed
              /\ Detaches ]_vars

\* C12 witness: a timed flush has fired and the next recording call armed
\* the second timer.
C12_Witness ==
    /\ \E b \in DOMAIN batches : batches[b].trigger = "timer"
    /\ timersArmed = 2
    /\ flushTimer = 2
    /\ Cardinality(timers) = 1
    /\ Len(logBuffer) = 1

\* The transport calls awaited by promise p.
CallsOf(p) == {c \in DOMAIN calls : calls[c].promise = p}

\* C13: the promise of flush() is pending exactly while the send of its own
\* batch is in flight and is resolved once that send has finished, with a
\* response or with a rejection that was absorbed (it is never rejected);
\* a flush() that finds the queue empty makes no transport call and its
\* promise is resolved at once.
C13_FlushSignal ==
    /\ [](\A p \in DOMAIN promises : promises[p].trigger = "manual" =>
            /\ Cardinality(CallsOf(p)) <= 1
            /\ promises[p].state =
                  IF \E c \in CallsOf(p) : calls[c].outcome = "inflight"
                  THEN "pending" ELSE "resolved"
            /\ \A c \in CallsOf(p) : /\ promises[p].batch # 0
                                     /\ calls[c].batch = promises[p].batch)
    /\ [][(ManualFlushStep /\ logBuffer = <<>>) =>
            /\ calls' = calls
            /\ promises' = Append(promises, Promise("manual", "resolved", 0))
         ]_vars

\* C13 witness: one flush() resolved after its send was rejected and
\* another flush() found the queue empty.
C13_Witness ==
    \E p1, p2 \in DOMAIN promises :
        /\ promises[p1].trigger = "manual"
        /\ promises[p1].state = "resolved"
        /\ \E c \in CallsOf(p1) : calls[c].outcome = "rejected"
        /\ promises[p2] = Promise("manual", "resolved", 0)

\* C14: a manual flush(), with a timer pending or not, leaves no live timer,
\* a null handle and an empty queue; the handle is already null when the
\* queue is detached; and a cancelled timer never fires: a timer is live
\* only from its arming on, and only a live timer starts a timed flush.
C14_ManualFlushIdle ==
    /\ [](\A b \in DOMAIN batches :
             batches[b].trigger = "manual" => batches[b].handle = 0)
    /\ [][ /\ ManualFlushStep =>
                /\ flushTimer' = 0
                /\ timers' = {}
                /\ logBuffer' = <<>>
                /\ timersArmed' = timersArmed
           /\ \A t \in timers' \ timers :
                /\ timersArmed' = timersArmed + 1
                /\ t.id = timersArmed'
           /\ (Detaches /\ NewBatch.trigger = "timer") =>
                \E t \in timers : t \notin timers' /\ t.due <= now ]_vars

\* C14 witness: a flush() cancelled the only timer ever armed, a second one
\* started from Idle, and the delay of the cancelled timer has passed with
\* no timed flush.
C14_Witness ==
    /\ \E p \in DOMAIN promises :
          /\ promises[p].trigger = "manual"
          /\ promises[p].batch # 0
    /\ \E p \in DOMAIN promises : promises[p] = Promise("manual", "resolved", 0)
    /\ timersArmed = 1
    /\ timers = {}
    /\ flushTimer = 0
    /\ logBuffer = <<>>
    /\ now >= DefaultFlushInterval
    /\ \A b \in DOMAIN batches : batches[b].trigger = "manual"

\* The entries a step can send or keep: those queued before it and the one
\* it records.
Queued ==
    {logBuffer[k].seq : k \in DOMAIN logBuffer}
        \cup (IF Records THEN {Len(recorded')} ELSE {})

\* C15: a reset, in any state, leaves the queue empty, no live timer, a null
\* handle and the hook flag false, and makes no transport call, echo or
\* batch; what it dropped never comes back: every step queues, detaches,
\* sends and echoes only entries that were queued before it or that it
\* records, and a timer is live only from its arming on.
C15_ResetToIdle ==
    [][ /\ (resets' = resets + 1) =>
             /\ logBuffer' = <<>>
             /\ flushTimer' = 0
             /\ timers' = {}
             /\ shutdownHookRegistered' = FALSE
             /\ UNCHANGED <<calls, echoes, errors, batches, promises,
                            recorded, timersArmed, config>>
        /\ \A k \in DOMAIN logBuffer' : logBuffer'[k].seq \in Queued
        /\ \A b \in (Len(batches) + 1)..Len(batches') :
             \A k \in DOMAIN batches'[b].entries :
                 batches'[b].entries[k].seq \in Queued
        /\ \A c \in (Len(calls) + 1)..Len(calls') :
             \A k \in DOMAIN calls'[c].streams[1].values :
                 calls'[c].streams[1].values[k].src \in Queued
        /\ \A e \in (Len(echoes) + 1)..Len(echoes') : echoes'[e].src \in Queued
        /\ \A t \in timers' \ timers : t.id = timersArmed + 1 ]_vars

\* C15 witness: a reset dropped the first entry and its timer; the entry
\* recorded afterwards was flushed alone by the second timer.
C15_Witness ==
    /\ resets = 1
    /\ Len(recorded) = 2
    /\ Len(batches) = 1
    /\ batches[1].trigger = "timer"
    /\ batches[1].entries = <<recorded[2]>>
    /\ Holders(1) = {}
    /\ timersArmed = 2
    /\ timers = {}

\* C16: with no reset, a step subscribes to the exit notification exactly
\* when it is a recording call, nothing is subscribed yet, registerShutdownHook
\* is true and the facility is available, so at most one subscription is ever
\* made and none while the setting is false or the facility is missing (the
\* call records its entry all the same); the flag is set exactly when the
\* subscription exists; at exit each subscription runs flush() once.
C16_SubscribeOnce ==
    [][NoReset' =>
         /\ exitSubs' =
               IF /\ Records
                  /\ exitSubs = 0
                  /\ Configured("registerShutdownHook", TRUE)
                  /\ hasProcess
               THEN 1 ELSE exitSubs
         /\ exitSubs' <= 1
         /\ shutdownHookRegistered' = (exitSubs' = 1)
         /\ (exits' = exits + 1) =>
               /\ Len(promises') = Len(promises) + exitSubs
               /\ \A p \in (Len(promises) + 1)..Len(promises') :
                     promises'[p].trigger = "exit" ]_vars

\* C16 witness: after two or more recording calls there is one subscription,
\* and at exit it flushed what was queued.
C16_Witness ==
    /\ resets = 0
    /\ exitSubs = 1
    /\ Len(recorded) >= 2
    /\ exits = 1
    /\ Cardinality({p \in DOMAIN promises : promises[p].trigger = "exit"}) = 1
    /\ \E b \in DOMAIN batches : /\ batches[b].trigger = "exit"
                                 /\ Len(batches[b].entries) >= 2

\* C17: a recording call is one synchronous step that appends the entry and
\* takes the flush decision; when that decision is a threshold flush with
\* the transport enabled, the call returns with the request still in flight
\* and the flush's promise pending: no request is settled by a recording
\* call.
C17_NonBlocking ==
    [][Records =>
         LET new == recorded'[Len(recorded')]
         IN  /\ Len(promises') <= Len(promises) + 1
             /\ \A c \in DOMAIN calls : calls'[c] = calls[c]
             /\ \A p \in DOMAIN promises : promises'[p] = promises[p]
             /\ IF Detaches
                THEN /\ NewBatch.trigger = "threshold"
                     /\ NewBatch.entries = Append(logBuffer, new)
                     /\ logBuffer' = <<>>
                     /\ LokiEnabledNow =>
                          /\ Len(calls') = Len(calls) + 1
                          /\ calls'[Len(calls')].outcome = "inflight"
                          /\ promises'[Len(promises')].state = "pending"
                ELSE /\ logBuffer' = Append(logBuffer, new)
                     /\ calls' = calls
                     /\ flushTimer' # 0 ]_vars

\* C17 witness: the request of a threshold flush is in flight and the next
\* recording call has already been queued.
C17_Witness ==
    \E c \in DOMAIN calls :
        /\ calls[c].outcome = "inflight"
        /\ batches[calls[c].batch].trigger = "threshold"
        /\ Len(logBuffer) >= 1

\* The promises of the fire-and-forget flushes.
Unawaited ==
    {p \in DOMAIN promises : promises[p].trigger \in {"threshold", "timer"}}

\* C18: the promise of a threshold or timer flush is never rejected; when
\* the request of such a flush is rejected, the promise resolves, the
\* failure is reported once, and queue, timer and the other requests are
\* left as they were, so recording and flushing go on; recording steps and
\* timer steps always complete.
C18_NothingRaised ==
    /\ [](\A p \in Unawaited : promises[p].state # "rejected")
    /\ [][\A c \in DOMAIN calls :
            (/\ calls[c].promise \in Unawaited
             /\ calls[c].outcome = "inflight"
             /\ calls'[c].outcome = "rejected") =>
               /\ promises'[calls[c].promise].state = "resolved"
               /\ Len(errors') = Len(errors) + 1
               /\ errors'[Len(errors')].call = c
               /\ UNCHANGED <<logBuffer, flushTimer, timers, batches, recorded,
                              echoes, config>>
               /\ \A d \in DOMAIN calls \ {c} : calls'[d] = calls[d] ]_vars

\* C18 witness: the request of a threshold flush was rejected, and after
\* that report a timer flush sent a later entry.
C18_Witness ==
    \E c1, c2 \in DOMAIN calls :
        /\ calls[c1].outcome = "rejected"
        /\ batches[calls[c1].batch].trigger = "threshold"
        /\ calls[c2].reported >= 1
        /\ batches[calls[c2].batch].trigger = "timer"

\* C19: a timer is armed only by a recording call into the Idle state, for
\* the flushInterval in effect at that call; a recording call made while it
\* is pending and staying below the threshold leaves it as it is; the timed
\* flush runs when exactly that interval has elapsed since the arming, with
\* the handle cleared, and takes the whole queue.
C19_TimedFlush ==
    [][ /\ \A t \in timers' \ timers :
             /\ Records
             /\ logBuffer = <<>> /\ flushTimer = 0 /\ timers = {}
             /\ t.armedAt = now
             /\ t.delay = Configured("flushInterval", DefaultFlushInterval)
             /\ t.due = t.armedAt + t.delay
             /\ flushTimer' = t.id
             /\ timers' = {t}
        /\ (Records /\ timers # {} /\ ~Detaches) =>
             /\ timers' = timers
             /\ flushTimer' = flushTimer
        /\ (/\ Len(promises') = Len(promises) + 1
            /\ promises'[Len(promises')].trigger = "timer") =>
             /\ \E t \in timers :
                   /\ t.id = flushTimer
                   /\ now = t.armedAt + t.delay
                   /\ timers' = timers \ {t}
             /\ flushTimer' = 0
             /\ logBuffer' = <<>>
             /\ Detaches
             /\ NewBatch.entries = logBuffer
             /\ NewBatch.handle = 0 ]_vars

\* C19 witness: with flushInterval 500, entries recorded at 250 and at 500
\* were flushed together by the timer at 750.
C19_Witness ==
    /\ now = 750
    /\ timersArmed = 1
    /\ timers = {}
    /\ Len(batches) = 1
    /\ batches[1].trigger = "timer"
    /\ Len(batches[1].entries) = 2
    /\ batches[1].entries[1].timestamp = toISOString(250)
    /\ batches[1].entries[2].timestamp = toISOString(500)

\* The contrast call that produced entry e (the calls differ in message).
CallOf(e) == CHOOSE c \in ShapeCalls : c.message = e.message

\* C20: the entry of a contrast call has level error if and only if the
\* call's ratio is defined and below 3 (zero and negative ratios included),
\* and level warn otherwise: for ratios of 3 and above and for no ratio.
C20_ContrastLevel ==
    \A i \in DOMAIN recorded :
        LET e == recorded[i]
            r == CallOf(e).labels.ratio
        IN  /\ e.labels.type = "contrast"
            /\ e.level \in {"error", "warn"}
            /\ e.level = "error" <=> (r # <<>> /\ r[1] < 30)
            /\ e.level = "warn" <=> (r = <<>> \/ r[1] >= 30)

\* C20 witness: a ratio of zero gave error, no ratio gave warn (both are
\* stored as ratio 0), and a ratio of exactly 3 gave warn.
C20_Witness ==
    /\ \E i \in DOMAIN recorded :
          /\ recorded[i].message = "Zero"
          /\ recorded[i].level = "error"
          /\ recorded[i].labels.ratio = 0
    /\ \E i \in DOMAIN recorded :
          /\ recorded[i].message = "Undefined"
          /\ recorded[i].level = "warn"
          /\ recorded[i].labels.ratio = 0
    /\ \E i \in DOMAIN recorded :
          /\ recorded[i].message = "Exactly three"
          /\ recorded[i].level = "warn"

\* The call that produced entry e (the calls differ in session id).
KindCallOf(e) ==
    CHOOSE c \in KindCalls \cup SummaryCalls : c.labels.sessionId = e.sessionId

\* C21: the level of a non-contrast entry is fixed by its kind: wcag is
\* error exactly when the severity supplied is "error" and warn for any
\* other severity, the empty string and none; evaluation, session and
\* summary are info; error is error; aria is warn.
C21_LevelByKind ==
    \A i \in DOMAIN recorded :
        LET e == recorded[i]
            c == KindCallOf(e)
        IN  CASE c.kind = "wcag" ->
                   e.level = IF c.labels.severity = <<"error">>
                             THEN "error" ELSE "warn"
              [] c.kind \in {"evaluation", "session", "summary"} ->
                   e.level = "info"
              [] c.kind = "error" -> e.level = "error"
              [] c.kind = "aria" -> e.level = "warn"
              [] OTHER -> c.kind = "contrast"

\* C21 witness: a wcag entry with severity "error" is at level error, one
\* with the empty severity at warn, and an entry of kind error at error.
C21_Witness ==
    /\ Len(recorded) = 3
    /\ \E i \in DOMAIN recorded :
          recorded[i].sessionId = <<"w2">> /\ recorded[i].level = "error"
    /\ \E i \in DOMAIN recorded :
          recorded[i].sessionId = <<"w5">> /\ recorded[i].level = "warn"
    /\ \E i \in DOMAIN recorded :
          recorded[i].sessionId = <<"x1">> /\ recorded[i].level = "error"

\* The decimal numeral of a non-negative integer, digit by digit.
RECURSIVE Decimal(_)
Decimal(n) ==
    LET digit == <<"0", "1", "2", "3", "4", "5", "6", "7", "8", "9">>
    IN  IF n < 10 THEN digit[n + 1]
        ELSE Decimal(n \div 10) \o digit[(n % 10) + 1]

\* C22: the message of a summary entry is "Accessibility summary: {issues}
\* issues ({criticalIssues} critical)" with both counts as decimal numerals,
\* zero included.
C22_SummaryMessage ==
    \A i \in DOMAIN recorded :
        LET e == recorded[i]
            c == KindCallOf(e)
        IN  c.kind = "summary" =>
              e.message = "Accessibility summary: "
                             \o Decimal(c.labels.issues) \o " issues ("
                             \o Decimal(c.labels.criticalIssues)
                             \o " critical)"

\* C22 witness: summaries with counts 0/0, 120/19 and 7/1005 were recorded.
C22_Witness ==
    /\ \E i \in DOMAIN recorded :
          recorded[i].message = "Accessibility summary: 0 issues (0 critical)"
    /\ \E i \in DOMAIN recorded :
          recorded[i].message
             = "Accessibility summary: 120 issues (19 critical)"
    /\ \E i \in DOMAIN recorded :
          recorded[i].message
             = "Accessibility summary: 7 issues (1005 critical)"

\* The documented defaults of the optional labels of each kind (ratios in
\* tenths).
LabelDefaults ==
    [contrast |-> [selector |-> "unknown", ratio |-> 0, requiredRatio |-> 45,
                   foreground |-> "unknown", background |-> "unknown",
                   wcagLevel |-> "AA", page |-> "", theme |-> ""],
     wcag |-> [selector |-> "unknown", rule |-> "unknown", wcagLevel |-> "AA",
               severity |-> "warning"],
     evaluation |-> [resultsCount |-> 0, issuesCount |-> 0,
                     criticalCount |-> 0, evaluationTimeMs |-> 0],
     session |-> [action |-> "unknown", userId |-> "anonymous",
                  userAgent |-> "unknown"],
     error |-> [error |-> "unknown", stack |-> ""],
     aria |-> [selector |-> "unknown", issue |-> "unknown", fix |-> "",
               page |-> ""]]

\* C23: every entry's labels carry type = the kind, and each optional label
\* holds the value the caller supplied, or the documented default when the
\* caller omitted the field (tagName comes from elementInfo, or is
\* "unknown" without it; a summary's labels are its five numbers).
C23_SuppliedOrDefault ==
    \A i \in DOMAIN recorded :
        LET e == recorded[i]
            c == KindCallOf(e)
        IN  /\ e.labels.type = c.kind
            /\ IF c.kind = "summary"
               THEN \A k \in {"totalElements", "evaluatedElements", "issues",
                              "criticalIssues", "evaluationTimeMs"} :
                        e.labels[k] = c.labels[k]
               ELSE /\ \A k \in DOMAIN LabelDefaults[c.kind] :
                          e.labels[k] = IF c.labels[k] = <<>>
                                        THEN LabelDefaults[c.kind][k]
                                        ELSE c.labels[k][1]
                    /\ c.kind \in {"contrast", "aria"} =>
                          e.labels.tagName =
                             IF c.labels.elementInfo = <<>> THEN "unknown"
                             ELSE c.labels.elementInfo[1].tagName

\* The value given for key k by the most recent configure call of history h
\* that mentions k since the last reset-config; <<>> when there is none.
RECURSIVE LastGiven(_, _)
LastGiven(h, k) ==
    IF h = <<>> THEN <<>>
    ELSE LET x == h[Len(h)]
         IN  IF x.op = "reset" THEN <<>>
             ELSE IF k \in DOMAIN x.arg THEN x.arg[k]
             ELSE LastGiven(SubSeq(h, 1, Len(h) - 1), k)

\* C24: after any sequence of configure and reset-config calls every setting
\* resolves to the value given by the most recent configure call that
\* mentions the key since the last reset-config, and to its default when
\* there is none (or when that call gave undefined or null); a configure
\* call leaves the keys it does not mention as they resolved before, and
\* reset-config returns every key to its default.
C24_MostRecentWins ==
    /\ [](\A k \in ConfigKeys :
            getA11yLoggerConfig[k] =
               LET g == LastGiven(configs, k)
               IN  IF Len(g) = 1 THEN g[1] ELSE DEFAULTS[k])
    /\ [][configs' # configs =>
            LET x == configs'[Len(configs')]
            IN  IF x.op = "reset"
                THEN ResolveConfig(config') = DEFAULTS
                ELSE \A k \in ConfigKeys \ DOMAIN x.arg :
                        ResolveConfig(config')[k] = ResolveConfig(config)[k]
         ]_vars

\* C24 witness: after three configure calls lokiUrl has the value of the
\* second, jobLabel that of the first, and lokiEnabled and flushInterval the
\* falsy values of the third.
C24_Witness ==
    /\ Len(configs) = 3
    /\ \A i \in 1..3 : configs[i].op = "configure"
    /\ getA11yLoggerConfig.lokiUrl = "http://b"
    /\ getA11yLoggerConfig.jobLabel = "j1"
    /\ getA11yLoggerConfig.lokiEnabled = FALSE
    /\ getA11yLoggerConfig.flushInterval = 0
    /\ getA11yLoggerConfig.maxBufferSize = DefaultMaxBufferSize

\* C25: the resolved configuration always has its ten keys, each with a
\* value of its type, never undefined or null: a key passed as undefined or
\* null resolves to its default.
C25_AlwaysResolved ==
    LET cfg == getA11yLoggerConfig
    IN  /\ DOMAIN cfg = ConfigKeys
        /\ Cardinality(DOMAIN cfg) = 10
        /\ \A k \in {"lokiEnabled", "isDevelopment", "registerShutdownHook"} :
              cfg[k] \in BOOLEAN
        /\ \A k \in {"flushInterval", "maxBufferSize"} : cfg[k] \in Nat
        /\ \A k \in {"lokiUrl", "jobLabel", "containerLabel", "environment",
                     "serviceLabel"} :
              /\ cfg[k] \in STRING
              /\ cfg[k] # JsNull[1]
        /\ \A k \in ConfigKeys :
              LastGiven(configs, k) \in {<<>>, JsNull} => cfg[k] = DEFAULTS[k]

\* C25 witness: jobLabel was set and then passed as null, lokiUrl was set
\* and then passed as undefined, and both resolve to their defaults.
C25_Witness ==
    /\ configs = << [op |-> "configure",
                     arg |-> [lokiUrl |-> <<"http://a">>,
                              jobLabel |-> <<"j1">>]],
                    [op |-> "configure",
                     arg |-> [lokiUrl |-> <<>>, maxBufferSize |-> <<5>>]],
                    [op |-> "configure",
                     arg |-> [jobLabel |-> JsNull,
                              registerShutdownHook |-> <<FALSE>>]] >>
    /\ config.jobLabel = JsNull
    /\ config.lokiUrl = <<>>
    /\ getA11yLoggerConfig.jobLabel = "accessibility"
    /\ getA11yLoggerConfig.lokiUrl = "http://localhost:3100"
    /\ getA11yLoggerConfig.maxBufferSize = 5

\* C26: the first element of every value sent is the decimal numeral, digits
\* only, of the entry's timestamp in epoch milliseconds times 1,000,000: the
\* numeral of the milliseconds followed by six zeros (and "0" for the epoch
\* itself), so the part below the millisecond is zero.
C26_NanosecondString ==
    \A c \in DOMAIN calls :
        \A k \in DOMAIN calls[c].streams[1].values :
            LET v == calls[c].streams[1].values[k]
                iso == recorded[v.src].timestamp
                ms == ((iso[4] * 60 + iso[5]) * 60 + iso[6]) * 1000 + iso[7]
            IN  /\ v.ts = Decimal(ms * 1000000)
                /\ (ms * 1000000) % 1000000 = 0
                /\ ms >= 1 => v.ts = Decimal(ms) \o "000000"

\* C26 witness: one call carried the entries recorded at the epoch and at
\* 500 ms, with "0" and "500000000".
C26_Witness ==
    \E c \in DOMAIN calls :
        /\ Len(calls[c].streams[1].values) = 2
        /\ calls[c].streams[1].values[1].ts = "0"
        /\ calls[c].streams[1].values[2].ts = "500000000"
        /\ recorded[calls[c].streams[1].values[2].src].timestamp
              = <<1970, 1, 1, 0, 0, 0, 500>>

\* C27: between operations a timer is live exactly when the queue is not
\* empty, and it is the one the handle names; a timer never fires on an
\* empty queue.
C27_TimerIffQueue ==
    /\ []((timers # {}) <=> (logBuffer # <<>>))
    /\ []((flushTimer # 0) <=> (logBuffer # <<>>))
    /\ [][\A p \in (Len(promises) + 1)..Len(promises') :
            promises'[p].trigger = "timer" =>
               /\ logBuffer # <<>>
               /\ promises'[p].batch # 0 ]_vars

\* C27 witness: after a timed flush, a manual flush and a reset, each of
\* which left the queue empty with no timer, an entry is queued with a timer
\* pending, under a changed maxBufferSize.
C27_Witness ==
    /\ \E p \in DOMAIN promises : promises[p].trigger = "timer"
    /\ \E p \in DOMAIN promises : promises[p].trigger = "manual"
    /\ resets = 1
    /\ config.maxBufferSize = <<2>>
    /\ Len(logBuffer) = 1
    /\ Cardinality(timers) = 1

\* The entries, by number, of a sequence of entries or of values.
Seqs(es) == [i \in DOMAIN es |-> es[i].seq]
Srcs(vs) == [i \in DOMAIN vs |-> vs[i].src]

\* C28: a flush detaches the queue in the step that starts it: the batch is
\* the queue at that moment, the queue is empty before the request is
\* awaited, and the request carries the batch; afterwards neither the batch
\* nor the request changes; a recording call made while a request is in
\* flight touches only the fresh queue; the settling of a request leaves
\* the queue alone, so those entries go out with a later flush.
C28_DetachBeforeSend ==
    /\ [](\A c \in DOMAIN calls :
            Srcs(calls[c].streams[1].values)
               = Seqs(batches[calls[c].batch].entries))
    /\ [][ /\ \A b \in DOMAIN batches : batches'[b] = batches[b]
           /\ \A c \in DOMAIN calls : calls'[c].streams = calls[c].streams
           /\ Detaches =>
                /\ NewBatch.entries =
                      IF Records
                      THEN Append(logBuffer, recorded'[Len(recorded')])
                      ELSE logBuffer
                /\ logBuffer' = <<>>
           /\ (Records /\ ~Detaches) =>
                logBuffer' = Append(logBuffer, recorded'[Len(recorded')])
           /\ (\E c \in DOMAIN calls : calls'[c].outcome # calls[c].outcome)
                => /\ logBuffer' = logBuffer
                   /\ batches' = batches ]_vars

\* C28 witness: while the request of entries 1 and 2 is in flight, entry 3
\* was recorded into the fresh queue and went out with the next flush.
C28_Witness ==
    /\ Len(calls) = 2
    /\ calls[1].outcome = "inflight"
    /\ Srcs(calls[1].streams[1].values) = <<1, 2>>
    /\ Srcs(calls[2].streams[1].values) = <<3>>
    /\ logBuffer = <<>>

\* C29: a flush() that finds the queue empty, whether or not an earlier
\* flush is still waiting for its request, detaches nothing, makes no
\* transport call and no echo, and resolves; a flush() that finds entries
\* detaches them all in one batch with at most one call, so a flush()
\* repeated with no recording call in between finds nothing; no entry is in
\* two calls or echoed twice, and a later batch holds only entries recorded
\* after those of an earlier one.
C29_FlushIdempotent ==
    /\ [](\A i \in DOMAIN recorded : Cardinality(Deliveries(i)) <= 1)
    /\ [](\A b1, b2 \in DOMAIN batches : b1 < b2 =>
            \A k1 \in DOMAIN batches[b1].entries,
               k2 \in DOMAIN batches[b2].entries :
                 batches[b1].entries[k1].seq < batches[b2].entries[k2].seq)
    /\ [][ManualFlushStep =>
            /\ logBuffer' = <<>>
            /\ IF logBuffer = <<>>
               THEN /\ calls' = calls
                    /\ batches' = batches
                    /\ echoes' = echoes
                    /\ promises'[Len(promises')]
                          = Promise("manual", "resolved", 0)
               ELSE /\ Detaches
                    /\ NewBatch.entries = logBuffer
                    /\ Len(calls') <= Len(calls) + 1 ]_vars

\* C29 witness: a second flush() was made while the request of the first
\* was still in flight: it resolved at once and there is one call.
C29_Witness ==
    /\ Len(promises) = 2
    /\ promises[1].trigger = "manual"
    /\ promises[1].state = "pending"
    /\ promises[2] = Promise("manual", "resolved", 0)
    /\ Len(calls) = 1
    /\ calls[1].outcome = "inflight"
    /\ Len(batches) = 1

\* C30: a manual flush() waits only for the request it dispatched itself:
\* its promise is pending only while a request of its own batch is in
\* flight, and a flush() called on an empty queue while the request of an
\* earlier threshold or timer flush is in flight resolves in that step,
\* with that request still in flight.
C30_AwaitsOwnSend ==
    /\ [](\A p \in DOMAIN promises :
            (promises[p].trigger = "manual" /\ promises[p].state = "pending")
            => \E c \in CallsOf(p) :
                  /\ calls[c].outcome = "inflight"
                  /\ calls[c].batch = promises[p].batch
                  /\ batches[calls[c].batch].trigger = "manual")
    /\ [][(ManualFlushStep /\ logBuffer = <<>> /\ InFlight # {}) =>
            /\ promises'[Len(promises')] = Promise("manual", "resolved", 0)
            /\ calls' = calls
            /\ InFlight' = InFlight ]_vars

\* C30 witness: a flush() on an empty queue has resolved while the request
\* of an earlier threshold flush is still in flight.
C30_Witness ==
    \E c \in DOMAIN calls, p \in DOMAIN promises :
        /\ calls[c].outcome = "inflight"
        /\ batches[calls[c].batch].trigger = "threshold"
        /\ calls[c].promise < p
        /\ promises[calls[c].promise].state = "pending"
        /\ promises[p] = Promise("manual", "resolved", 0)

\* C31: with the settings unchanged since startup and maxBufferSize >= 1,
\* the queue holds at most maxBufferSize - 1 entries between operations,
\* every batch of a threshold flush has exactly maxBufferSize entries, and
\* no batch has more.
C31_QueueBelowThreshold ==
    LET max == Configured("maxBufferSize", DefaultMaxBufferSize)
    IN  max >= 1 =>
          /\ Len(logBuffer) <= max - 1
          /\ \A b \in DOMAIN batches :
                /\ Len(batches[b].entries) <= max
                /\ batches[b].trigger = "threshold" =>
                      Len(batches[b].entries) = max

\* C31 witness: with maxBufferSize 2, a threshold flush took two entries,
\* a third was queued and a manual flush took it alone.
C31_Witness ==
    /\ config.maxBufferSize = <<2>>
    /\ Len(batches) = 2
    /\ batches[1].trigger = "threshold"
    /\ Len(batches[1].entries) = 2
    /\ batches[2].trigger = "manual"
    /\ Len(batches[2].entries) = 1
    /\ logBuffer = <<>>

\* C32: a configure or reset-config call changes neither queue nor timer;
\* each recording call decides with the maxBufferSize in effect at that
\* call: it flushes exactly when the queue with the new entry has reached
\* it, and then the whole queue with the new entry goes out as one batch,
\* however long, the timer is cancelled and the handle cleared.
C32_ThresholdReRead ==
    [][ /\ configs' # configs =>
             UNCHANGED <<logBuffer, flushTimer, timers, timersArmed, batches,
                         calls, echoes, promises, recorded>>
        /\ Records =>
             LET max == Configured("maxBufferSize", DefaultMaxBufferSize)
                 new == recorded'[Len(recorded')]
             IN  /\ Detaches <=> Len(logBuffer) + 1 >= max
                 /\ Detaches =>
                      /\ NewBatch.trigger = "threshold"
                      /\ NewBatch.entries = Append(logBuffer, new)
                      /\ logBuffer' = <<>>
                      /\ timers' = {}
                      /\ flushTimer' = 0 ]_vars

\* C32 witness: maxBufferSize was lowered to 1 with two entries queued, and
\* the next recording call flushed all three as one batch and cancelled the
\* timer.
C32_Witness ==
    /\ config.maxBufferSize = <<1>>
    /\ Len(batches) = 1
    /\ batches[1].trigger = "threshold"
    /\ Len(batches[1].entries) = 3
    /\ timersArmed = 1
    /\ timers = {}
    /\ flushTimer = 0
    /\ logBuffer = <<>>

\* C33: where a batch goes is decided by the settings in effect at the step
\* that detaches it, whatever they were when its entries were recorded:
\* with lokiEnabled true at that step the batch is sent in one call to the
\* lokiUrl and with the job, container, environment and service labels of
\* that step; with lokiEnabled false no call is made and the batch is
\* echoed if isDevelopment is true at that step, and dropped otherwise.
C33_SettingsAtFlush ==
    [][Detaches =>
         LET K == Len(NewBatch.entries)
         IN  IF LokiEnabledNow
             THEN /\ Len(calls') = Len(calls) + 1
                  /\ echoes' = echoes
                  /\ LET c == calls'[Len(calls')]
                     IN  /\ c.batch = Len(batches')
                         /\ c.url = Configured("lokiUrl",
                                               "http://localhost:3100")
                                       \o "/loki/api/v1/push"
                         /\ c.streams[1].stream =
                              [job |-> Configured("jobLabel", "accessibility"),
                               container |-> Configured("containerLabel",
                                                 "stonewall-sveltekit"),
                               environment |-> Configured("environment",
                                                   "development"),
                               service |-> Configured("serviceLabel",
                                               "a11y-monitoring")]
                         /\ Srcs(c.streams[1].values)
                               = Seqs(NewBatch.entries)
             ELSE /\ calls' = calls
                  /\ Len(echoes') = Len(echoes)
                                      + (IF IsDevelopmentNow THEN K ELSE 0)
       ]_vars

\* C33 witness: startup had the transport off and maxBufferSize 3; the
\* transport was switched on (with maxBufferSize 1) when two entries were
\* queued, and the third recording call sent all three with the new stream
\* identity.  (A batch of three under maxBufferSize 1 means two entries
\* were queued before the change.)
C33_Witness ==
    /\ Len(configs) = 2
    /\ configs[1].arg.lokiEnabled = <<FALSE>>
    /\ configs[2].arg.lokiEnabled = <<TRUE>>
    /\ echoes = <<>>
    /\ Len(calls) = 1
    /\ Len(calls[1].streams[1].values) = 3
    /\ calls[1].streams[1].stream.job = "j"
    /\ calls[1].url = "http://loki:3100/loki/api/v1/push"

\* The entry recorded as number i is in a detached batch.
Detached(i) ==
    \E b \in DOMAIN batches :
        \E k \in DOMAIN batches[b].entries : batches[b].entries[k].seq = i

\* C34: with no reset, and every live timer expiring and firing, every
\* recorded entry is eventually in a detached batch (by a threshold flush,
\* a timed flush or a manual flush): none stays in the queue forever.
C34_EventuallyDetached ==
    \A i \in 1..MaxRecords : (Len(recorded) >= i) ~> Detached(i)

\* C34 witness: three entries were recorded and all are detached, the queue
\* is empty, one batch was taken by the timer and one by a manual flush.
C34_Witness ==
    /\ Len(recorded) = MaxRecords
    /\ \A i \in 1..MaxRecords : Detached(i)
    /\ logBuffer = <<>>
    /\ \E b \in DOMAIN batches : batches[b].trigger = "timer"
    /\ \E b \in DOMAIN batches : batches[b].trigger = "manual"

C37_SeparateState ==
    [][ /\ (configs' = configs) => config' = config
        /\ (\/ Records
            \/ Len(promises') > Len(promises)
            \/ timers' # timers
            \/ calls' # calls
            \/ resets' # resets
            \/ exits' # exits) => config' = config /\ configs' = configs
        /\ (configs' # configs) =>
              UNCHANGED <<logBuffer, flushTimer, timers,
                          shutdownHookRegistered, exitSubs>> ]_vars

\* C37 witness: settings were changed, the internal state was reset, and a
\* later recording call queued an entry and armed the timer under the
\* settings that were kept.
C37_Witness ==
    /\ Len(configs) = 1
    /\ config = [EmptyConfig EXCEPT !.maxBufferSize = <<2>>]
    /\ resets = 1
    /\ Len(logBuffer) = 1
    /\ flushTimer # 0
    /\ shutdownHookRegistered
    /\ Len(recorded) = 3

\* C38: the JSON object of every wire value has the fields level and msg
\* and the label fields of its entry, with the entry's values, and no other
\* field: the session id, stored on the entry when the caller gave one, is
\* not in the payload.
C38_PayloadFields ==
    \A c \in DOMAIN calls :
        \A i \in DOMAIN calls[c].streams[1].values :
            LET v == calls[c].streams[1].values[i]
                e == recorded[v.src]
            IN  /\ DOMAIN v.json = DOMAIN e.labels \cup {"level", "msg"}
                /\ \A k \in DOMAIN e.labels : v.json[k] = e.labels[k]
                /\ v.json.level = e.level
                /\ v.json.msg = e.message
                /\ "sessionId" \notin DOMAIN v.json
                /\ "sessionId" \in DOMAIN e

\* C38 witness: an entry recorded with session id "s1" was sent, with its
\* type and counts in the payload.
C38_Witness ==
    \E c \in DOMAIN calls :
        \E i \in DOMAIN calls[c].streams[1].values :
            LET v == calls[c].streams[1].values[i]
            IN  /\ recorded[v.src].sessionId = <<"s1">>
                /\ v.json.type = "evaluation"
                /\ v.json.resultsCount = 7
                /\ v.json.msg = "Eval"

\* C39: with maxBufferSize 1 (set at startup and kept), every recording
\* call flushes at once: the queue is empty after each call, the entry
\* recorded as number i is alone in batch i, taken by the threshold, and no
\* timer is ever armed.
C39_FlushEveryCall ==
    (config.maxBufferSize = <<1>>) =>
        /\ logBuffer = <<>>
        /\ timersArmed = 0
        /\ timers = {}
        /\ flushTimer = 0
        /\ Len(batches) = Len(recorded)
        /\ \A b \in DOMAIN batches :
              /\ batches[b].entries = <<recorded[b]>>
              /\ batches[b].trigger = "threshold"

\* C39 witness: three recording calls under maxBufferSize 1 made three
\* batches.
C39_Witness ==
    /\ config.maxBufferSize = <<1>>
    /\ Len(recorded) = MaxRecords
    /\ Len(batches) = MaxRecords
    /\ logBuffer = <<>>
    /\ timersArmed = 0

====
